---------------------------- MODULE Spec2Model ----------------------------
(***************************************************************************)
(* Model of perfid's Diplomacy game state (game_state.py) and of the jDip  *)
(* adapter it calls (jdip_adapter.py).                                     *)
(*                                                                         *)
(* The game state is the Python dict `state`; it is modelled as a TLA+     *)
(* function from key names to values, so that an absent key ("dislodged"   *)
(* is absent in a fresh game) is a key outside its DOMAIN.  Every Python   *)
(* function is an operator from a state (and its arguments) to the state   *)
(* it leaves behind.  The external adjudicator is an input: its replies    *)
(* are drawn from a finite set of replies.  The keys game_id, created_at   *)
(* and updated_at of the dict, and the file save_state writes, are left    *)
(* out: no operation modelled here reads them.                             *)
(***************************************************************************)
EXTENDS Integers, Sequences, FiniteSets, TLC

VARIABLES
    state,       \* the game state dict
    prev,        \* the game state dict before the last operation
    op,          \* name of the last operation called on the state
    arg,         \* name of the input given to the last operation, or None
    ret,         \* value returned by the last query (check_win)
    err,         \* exception raised by the last operation, or None
    upd,         \* number of update_sc_ownership calls made by the last operation
    sc_updates,  \* update_sc_ownership calls made in the current game year
    start,       \* phase and year where the current run of next_phase calls began
    n_adv,       \* number of consecutive next_phase calls since start
    log          \* the messages sent and the copies made of them, so far

vars == <<state, prev, op, arg, ret, err, upd, sc_updates, start, n_adv, log>>

None == "None"

-----------------------------------------------------------------------------
(* Python dict and list helpers *)

Has(d, k) == k \in DOMAIN d

Get(d, k, default) == IF k \in DOMAIN d THEN d[k] ELSE default

\* d[k] = v
Put(d, k, v) ==
    IF k \in DOMAIN d THEN [d EXCEPT ![k] = v]
    ELSE [x \in DOMAIN d \cup {k} |-> IF x = k THEN v ELSE d[x]]

EmptyDict == [x \in {} |-> None]

\* no message sent, no copy made
NoMessages == [sent |-> << >>, copied |-> EmptyDict]

Range(seq) == {seq[i] : i \in 1..Len(seq)}

\* The element of a one-element set: The({e(x) : x \in {v}}) is e at the
\* value of v, computed once, as an assignment x = v followed by e(x).
The(S) == CHOOSE x \in S : TRUE

\* list.index(x): the first position holding x
IndexOf(seq, x) == CHOOSE i \in 1..Len(seq) : seq[i] = x /\ \A j \in 1..(i - 1) : seq[j] # x

-----------------------------------------------------------------------------
(* Constants of game_state.py *)

PHASE_ORDER ==
    << "Spring Diplomacy", "Spring Movement", "Spring Retreat",
       "Fall Diplomacy", "Fall Movement", "Fall Retreat",
       "Winter Adjustment" >>

POWERS == << "Austria", "England", "France", "Germany", "Italy", "Russia", "Turkey" >>

Army(loc) == [type |-> "Army", location |-> loc]

Fleet(loc) == [type |-> "Fleet", location |-> loc]

STARTING_UNITS ==
    [ Austria |-> << Army("Vienna"), Army("Budapest"), Fleet("Trieste") >>,
      England |-> << Fleet("London"), Fleet("Edinburgh"), Army("Liverpool") >>,
      France  |-> << Fleet("Brest"), Army("Paris"), Army("Marseilles") >>,
      Germany |-> << Fleet("Kiel"), Army("Berlin"), Army("Munich") >>,
      Italy   |-> << Fleet("Naples"), Army("Rome"), Army("Venice") >>,
      Russia  |-> << Fleet("St Petersburg (South Coast)"), Army("Moscow"),
                     Army("Warsaw"), Fleet("Sevastopol") >>,
      Turkey  |-> << Fleet("Ankara"), Army("Constantinople"), Army("Smyrna") >> ]

HOME_CENTERS ==
    [ Austria |-> << "Vienna", "Budapest", "Trieste" >>,
      England |-> << "London", "Edinburgh", "Liverpool" >>,
      France  |-> << "Brest", "Paris", "Marseilles" >>,
      Germany |-> << "Kiel", "Berlin", "Munich" >>,
      Italy   |-> << "Naples", "Rome", "Venice" >>,
      Russia  |-> << "St Petersburg", "Moscow", "Warsaw", "Sevastopol" >>,
      Turkey  |-> << "Ankara", "Constantinople", "Smyrna" >> ]

\* sorted(home centers | the 12 neutral centers)
ALL_SUPPLY_CENTERS ==
    << "Ankara", "Belgium", "Berlin", "Brest", "Budapest", "Bulgaria",
       "Constantinople", "Denmark", "Edinburgh", "Greece", "Holland", "Kiel",
       "Liverpool", "London", "Marseilles", "Moscow", "Munich", "Naples",
       "Norway", "Paris", "Portugal", "Rome", "Rumania", "Serbia",
       "Sevastopol", "Smyrna", "Spain", "St Petersburg", "Sweden", "Trieste",
       "Tunis", "Venice", "Vienna", "Warsaw" >>

\* a threshold that half of the supply centers reaches
WinThresholdHalf == Len(ALL_SUPPLY_CENTERS) \div 2

WIN_THRESHOLD == 18

-----------------------------------------------------------------------------
(* String conversions, given by their value on every location of the model *)

\* loc.split("(")[0].strip(): the location without its coast qualifier
BaseLoc(loc) ==
    CASE loc = "St Petersburg (South Coast)" -> "St Petersburg"
      [] loc = "Spain (South Coast)" -> "Spain"
      [] OTHER -> loc

\* name.replace("St. Petersburg", "St Petersburg"): jDip's spelling to perfid's
FromJdipName(name) ==
    CASE name = "St. Petersburg" -> "St Petersburg"
      [] name = "St. Petersburg (South Coast)" -> "St Petersburg (South Coast)"
      [] OTHER -> name

-----------------------------------------------------------------------------
(* Phase progression *)

\* next_phase with the year test made after the phase is assigned: the year
\* moves on the step into Winter Adjustment
NextPhaseYearEarly(s) ==
    LET idx == IndexOf(PHASE_ORDER, s["phase"])
        phase == PHASE_ORDER[(idx % Len(PHASE_ORDER)) + 1]
    IN  IF phase = PHASE_ORDER[Len(PHASE_ORDER)]
        THEN Put(Put(s, "year", s["year"] + 1), "phase", phase)
        ELSE Put(s, "phase", phase)

NextPhase(s) ==
    LET idx == IndexOf(PHASE_ORDER, s["phase"])
    IN  IF idx = Len(PHASE_ORDER)
        THEN Put(Put(s, "year", s["year"] + 1), "phase", PHASE_ORDER[1])
        ELSE Put(s, "phase", PHASE_ORDER[idx + 1])

\* skip_retreat_if_empty without the test of state["dislodged"]
SkipRetreatAlways(s) ==
    IF s["phase"] \in {"Spring Retreat", "Fall Retreat"}
    THEN Put(s, "phase",
             PHASE_ORDER[(IndexOf(PHASE_ORDER, s["phase"]) % Len(PHASE_ORDER)) + 1])
    ELSE s

SkipRetreatIfEmpty(s) ==
    IF s["phase"] \in {"Spring Retreat", "Fall Retreat"}
    THEN IF Get(s, "dislodged", <<>>) = <<>> THEN NextPhase(s) ELSE s
    ELSE s

-----------------------------------------------------------------------------
(* Supply centers, victory, elimination *)

\* counts = {p: 0 for p in POWERS}; owners that are no power are not counted
ScCounts(s) ==
    [p \in Range(POWERS) |->
        Cardinality({sc \in DOMAIN s["sc_ownership"] : s["sc_ownership"][sc] = p})]

\* the loop of check_win over counts.items(), which iterates in POWERS order
RECURSIVE FirstAtThreshold(_, _)
FirstAtThreshold(counts, i) ==
    IF i > Len(POWERS) THEN None
    ELSE IF counts[POWERS[i]] >= WIN_THRESHOLD THEN POWERS[i]
    ELSE FirstAtThreshold(counts, i + 1)

\* check_win with count > WIN_THRESHOLD
CheckWinAbove(s) ==
    LET above == {i \in 1..Len(POWERS) : ScCounts(s)[POWERS[i]] > WIN_THRESHOLD}
    IN  IF above = {} THEN None
        ELSE POWERS[CHOOSE i \in above : \A j \in above : i <= j]

CheckWin(s) == FirstAtThreshold(ScCounts(s), 1)

\* the inner loop of update_sc_ownership over one power's units
RECURSIVE OccupyUnits(_, _, _)
OccupyUnits(sc, power, units) ==
    IF units = <<>> THEN sc
    ELSE LET base_loc == BaseLoc(Head(units).location)
         IN  OccupyUnits(IF base_loc \in DOMAIN sc
                         THEN [sc EXCEPT ![base_loc] = power]
                         ELSE sc,
                         power, Tail(units))

\* the outer loop of update_sc_ownership over state["units"].items()
RECURSIVE OccupyPowers(_, _, _)
OccupyPowers(sc, units, i) ==
    IF i > Len(POWERS) THEN sc
    ELSE OccupyPowers(IF POWERS[i] \in DOMAIN units
                      THEN OccupyUnits(sc, POWERS[i], units[POWERS[i]])
                      ELSE sc,
                      units, i + 1)

\* update_sc_ownership, were a supply center with no unit on it given up
UpdateScOwnershipReleasing(s) ==
    Put(s, "sc_ownership",
        [sc \in DOMAIN s["sc_ownership"] |->
            IF \E p \in DOMAIN s["units"] :
                  \E i \in 1..Len(s["units"][p]) : BaseLoc(s["units"][p][i].location) = sc
            THEN OccupyPowers(s["sc_ownership"], s["units"], 1)[sc]
            ELSE None])

UpdateScOwnership(s) ==
    Put(s, "sc_ownership", OccupyPowers(s["sc_ownership"], s["units"], 1))

\* the loop of check_elimination; counts are taken once, before the loop
RECURSIVE AppendEliminated(_, _, _)
AppendEliminated(eliminated, counts, i) ==
    IF i > Len(POWERS) THEN eliminated
    ELSE AppendEliminated(IF counts[POWERS[i]] = 0 /\ POWERS[i] \notin Range(eliminated)
                          THEN Append(eliminated, POWERS[i])
                          ELSE eliminated,
                          counts, i + 1)

\* check_elimination without the test "power not in state['eliminated']"
CheckEliminationAgain(s) ==
    Put(s, "eliminated",
        s["eliminated"] \o SelectSeq(POWERS, LAMBDA p : ScCounts(s)[p] = 0))

CheckElimination(s) ==
    Put(s, "eliminated", AppendEliminated(s["eliminated"], ScCounts(s), 1))

\* adjustment_counts without the test "power in state['eliminated']"
AdjustmentCountsOfAll(s) ==
    [p \in Range(POWERS) |-> ScCounts(s)[p] - Len(Get(s["units"], p, <<>>))]

AdjustmentCounts(s) ==
    [p \in Range(POWERS) |->
        IF p \in Range(s["eliminated"]) THEN 0
        ELSE ScCounts(s)[p] - Len(Get(s["units"], p, <<>>))]

\* winner = check_win(state); if winner: state["winner"] = winner
SetWinner(s) ==
    LET winner == CheckWin(s)
    IN  IF winner # None THEN Put(s, "winner", winner) ELSE s

\* the block run when the phase is Fall Retreat, in apply_orders and apply_retreats
FallResolution(s) == SetWinner(CheckElimination(UpdateScOwnership(s)))

-----------------------------------------------------------------------------
(* The jDip adapter *)

\* _units_from_jdip
UnitsFromJdip(units) ==
    [p \in DOMAIN units |->
        [i \in 1..Len(units[p]) |->
            [type |-> units[p][i].type,
             location |-> FromJdipName(units[p][i].location)]]]

\* _sc_from_jdip
ScFromJdip(sc) ==
    [name \in {FromJdipName(k) : k \in DOMAIN sc} |->
        sc[CHOOSE k \in DOMAIN sc : FromJdipName(k) = name]]

\* the loop of jdip_adjudicate over result["dislodged"]
DislodgedFromJdip(dislodged) ==
    [i \in 1..Len(dislodged) |->
        IF Has(dislodged[i], "unit")
        THEN Put(dislodged[i], "unit",
                 Put(dislodged[i]["unit"], "location",
                     FromJdipName(dislodged[i]["unit"]["location"])))
        ELSE dislodged[i]]

\* The result of jdip_adjudicate for a reply of the jDip process that _run_jdip
\* could read: the reply with its location names in perfid's spelling.
NormalizeResult(result) ==
    LET r1 == IF Has(result, "resolved_units")
              THEN Put(result, "resolved_units", UnitsFromJdip(result["resolved_units"]))
              ELSE result
        r2 == IF Has(r1, "dislodged")
              THEN Put(r1, "dislodged", DislodgedFromJdip(r1["dislodged"]))
              ELSE r1
    IN  IF Has(r2, "sc_ownership")
        THEN Put(r2, "sc_ownership", ScFromJdip(r2["sc_ownership"]))
        ELSE r2

\* _run_jdip within jdip_adjudicate.  A reply is what the jDip process did:
\* status "ok" with the JSON object it printed, or the exception _run_jdip
\* raises (RuntimeError on a non-zero exit status, TimeoutExpired from
\* subprocess.run, JSONDecodeError from json.loads).
\* jdip_adjudicate that gives an empty result when the jDip process fails
JdipAdjudicateQuiet(reply) ==
    IF reply.status = "ok"
    THEN [err |-> None, result |-> NormalizeResult(reply.result)]
    ELSE [err |-> None, result |-> EmptyDict]

JdipAdjudicate(reply) ==
    IF reply.status = "ok"
    THEN [err |-> None, result |-> NormalizeResult(reply.result)]
    ELSE [err |-> reply.status, result |-> EmptyDict]

-----------------------------------------------------------------------------
(* Operations on the game state.  Each gives an outcome: the state left     *)
(* behind, the exception raised (or None) and the number of calls of        *)
(* update_sc_ownership it made.                                             *)

Outcome(s, n, e) == [state |-> s, upd |-> n, err |-> e]

\* apply_orders that tests the season only: the Fall block runs in Fall
\* Movement too
ApplyOrdersAnyFall(s, orders) ==
    LET s1 == IF Has(orders, "resolved_units")
              THEN Put(s, "units", orders["resolved_units"])
              ELSE s
        s2 == Put(s1, "dislodged",
                  IF Has(orders, "dislodged") THEN orders["dislodged"] ELSE <<>>)
        s3 == IF Has(orders, "sc_ownership") /\ DOMAIN orders["sc_ownership"] # {}
              THEN Put(s2, "sc_ownership", orders["sc_ownership"])
              ELSE s2
    IN  IF s3["phase"] \in {"Fall Movement", "Fall Retreat"}
        THEN Outcome(FallResolution(s3), 1, None)
        ELSE Outcome(s3, 0, None)

ApplyOrders(s, orders) ==
    LET s1 == IF Has(orders, "resolved_units")
              THEN Put(s, "units", orders["resolved_units"])
              ELSE s
        s2 == Put(s1, "dislodged",
                  IF Has(orders, "dislodged") THEN orders["dislodged"] ELSE <<>>)
        s3 == IF Has(orders, "sc_ownership") /\ DOMAIN orders["sc_ownership"] # {}
              THEN Put(s2, "sc_ownership", orders["sc_ownership"])
              ELSE s2
    IN  IF s3["phase"] = "Fall Retreat"
        THEN Outcome(FallResolution(s3), 1, None)
        ELSE Outcome(s3, 0, None)

\* adjudicate without its call of skip_retreat_if_empty
AdjudicateNoSkip(s, reply) ==
    LET jdip == JdipAdjudicate(reply)
        applied == ApplyOrders(s, jdip.result)
        s1 == IF Get(jdip.result, "game_over", FALSE)
              THEN SetWinner(applied.state)
              ELSE applied.state
        s2 == CheckElimination(s1)
    IN  IF jdip.err # None
        THEN Outcome(s, 0, jdip.err)
        ELSE Outcome(NextPhase(s2), applied.upd, None)

Adjudicate(s, reply) ==
    LET jdip == JdipAdjudicate(reply)
        applied == ApplyOrders(s, jdip.result)
        s1 == IF Get(jdip.result, "game_over", FALSE)
              THEN SetWinner(applied.state)
              ELSE applied.state
        s2 == CheckElimination(s1)
        s3 == NextPhase(s2)
    IN  IF jdip.err # None
        THEN Outcome(s, 0, jdip.err)
        ELSE Outcome(SkipRetreatIfEmpty(s3), applied.upd, None)

\* a loop that puts a disbanded unit back where it was dislodged
RECURSIVE RetreatLoopKeepingDisbanded(_, _)
RetreatLoopKeepingDisbanded(units, retreat_orders) ==
    IF retreat_orders = <<>> THEN [units |-> units, err |-> None]
    ELSE LET order == Head(retreat_orders)
         IN  IF order["power"] \notin DOMAIN units
             THEN [units |-> units, err |-> "KeyError"]
             ELSE RetreatLoopKeepingDisbanded(
                    [units EXCEPT ![order["power"]] =
                        Append(@, [type |-> order["unit"]["type"],
                                   location |->
                                       IF order["action"] = "retreat"
                                       THEN order["destination"]
                                       ELSE order["unit"]["location"]])],
                    Tail(retreat_orders))

\* the loop of apply_retreats; state["units"][power] raises KeyError when the
\* power has no entry in units, and the units appended before stay appended
RECURSIVE RetreatLoop(_, _)
RetreatLoop(units, retreat_orders) ==
    IF retreat_orders = <<>> THEN [units |-> units, err |-> None]
    ELSE LET order == Head(retreat_orders)
         IN  IF order["action"] = "retreat"
             THEN IF order["power"] \notin DOMAIN units
                  THEN [units |-> units, err |-> "KeyError"]
                  ELSE RetreatLoop(
                         [units EXCEPT ![order["power"]] =
                             Append(@, [type |-> order["unit"]["type"],
                                        location |-> order["destination"]])],
                         Tail(retreat_orders))
             ELSE RetreatLoop(units, Tail(retreat_orders))

ApplyRetreats(s, retreat_orders) ==
    LET looped == RetreatLoop(s["units"], retreat_orders)
        s1 == Put(s, "units", looped.units)
        s2 == Put(s1, "dislodged", <<>>)
    IN  IF looped.err # None THEN Outcome(s1, 0, looped.err)
        ELSE IF s2["phase"] = "Fall Retreat"
        THEN Outcome(FallResolution(s2), 1, None)
        ELSE Outcome(s2, 0, None)

\* the inner loop of apply_adjustments, were a disband to remove every unit
\* of the type named
RECURSIVE AdjustLoopDisbandingType(_, _, _)
AdjustLoopDisbandingType(units, power, actions) ==
    IF actions = <<>> THEN [units |-> units, err |-> None]
    ELSE LET action == Head(actions)
         IN  IF action["action"] = "build"
             THEN AdjustLoopDisbandingType(
                    Put(units, power, Append(Get(units, power, <<>>), action["unit"])),
                    power, Tail(actions))
             ELSE IF power \notin DOMAIN units
             THEN [units |-> units, err |-> "KeyError"]
             ELSE AdjustLoopDisbandingType(
                    [units EXCEPT ![power] =
                        SelectSeq(@, LAMBDA u : u.type # action["unit"].type)],
                    power, Tail(actions))

\* the inner loop of apply_adjustments over one power's actions
RECURSIVE AdjustLoop(_, _, _)
AdjustLoop(units, power, actions) ==
    IF actions = <<>> THEN [units |-> units, err |-> None]
    ELSE LET action == Head(actions)
         IN  IF action["action"] = "build"
             THEN AdjustLoop(Put(units, power,
                                 Append(Get(units, power, <<>>), action["unit"])),
                             power, Tail(actions))
             ELSE IF action["action"] = "disband"
             THEN IF power \notin DOMAIN units
                  THEN [units |-> units, err |-> "KeyError"]
                  ELSE AdjustLoop(
                         [units EXCEPT ![power] =
                             SelectSeq(@, LAMBDA u :
                                 ~(u.type = action["unit"].type
                                   /\ u.location = action["unit"].location))],
                         power, Tail(actions))
             ELSE AdjustLoop(units, power, Tail(actions))

\* the outer loop over adjustments.items(), a sequence of <<power, actions>>
RECURSIVE AdjustPowers(_, _)
AdjustPowers(units, adjustments) ==
    IF adjustments = <<>> THEN [units |-> units, err |-> None]
    ELSE LET done == AdjustLoop(units, Head(adjustments)[1], Head(adjustments)[2])
         IN  IF done.err # None THEN done
             ELSE AdjustPowers(done.units, Tail(adjustments))

ApplyAdjustments(s, adjustments) ==
    LET looped == AdjustPowers(s["units"], adjustments)
    IN  Outcome(Put(s, "units", looped.units), 0, looped.err)

\* new_game, were the supply centers left without owner
NewGameNoCenters(init) ==
    [year |-> 1901,
     phase |-> "Spring Diplomacy",
     units |-> IF init.status = "ok" THEN UnitsFromJdip(init.result["units"])
               ELSE STARTING_UNITS,
     sc_ownership |-> EmptyDict,
     eliminated |-> <<>>,
     winner |-> None]

\* new_game.  init is what jdip_adapter gave: "unavailable" (is_available() is
\* false or the import fails), an exception of jdip_init, or its reply.
NewGame(init) ==
    LET from_jdip == init.status = "ok"
        units == IF from_jdip THEN UnitsFromJdip(init.result["units"])
                 ELSE STARTING_UNITS
        sc_ownership ==
            IF from_jdip THEN ScFromJdip(init.result["sc_ownership"])
            ELSE [sc \in UNION {Range(HOME_CENTERS[p]) : p \in DOMAIN HOME_CENTERS} |->
                    CHOOSE p \in DOMAIN HOME_CENTERS : sc \in Range(HOME_CENTERS[p])]
    IN  [year |-> 1901,
         phase |-> "Spring Diplomacy",
         units |-> units,
         sc_ownership |-> sc_ownership,
         eliminated |-> <<>>,
         winner |-> None]

\* The exception that leaves new_game: it catches ImportError and
\* RuntimeError only, so TimeoutExpired (subprocess.run) and JSONDecodeError
\* (json.loads) of jdip_init pass through.
NewGameErr(init) ==
    IF init.status \in {"TimeoutExpired", "JSONDecodeError"} THEN init.status
    ELSE None

\* the summary simulate adds to jDip's result, for the powers of state["units"]
Summary(s, result) ==
    [p \in DOMAIN s["units"] |->
        [units_before |-> Len(Get(s["units"], p, <<>>)),
         units_after |-> Len(Get(Get(result, "resolved_units", EmptyDict), p, <<>>)),
         scs_before |->
            Cardinality({sc \in DOMAIN s["sc_ownership"] : s["sc_ownership"][sc] = p}),
         scs_after |->
            LET after == Get(result, "sc_ownership", EmptyDict)
            IN  Cardinality({sc \in DOMAIN after : after[sc] = p})]]

\* jdip_adapter.simulate: the value returned and the exception raised; the
\* state is only read
Simulate(s, reply) ==
    LET jdip == JdipAdjudicate(reply)
    IN  IF jdip.err # None THEN [ret |-> None, err |-> jdip.err]
        ELSE [ret |-> Put(jdip.result, "summary", Summary(s, jdip.result)),
              err |-> None]

-----------------------------------------------------------------------------
(* Orders (orders.py).  An order text is the sequence of its tokens, the    *)
(* pieces that whitespace separates, but a province name of two words is    *)
(* one token ("North Sea") and a coast in parentheses is one token ("(South *)
(* Coast)").  The regular expressions are matched token by token, in        *)
(* parse_order's order; a location may run over several tokens.             *)

\* [AF] under re.IGNORECASE
UnitLetters == {"A", "F", "a", "f"}

\* str.upper() on a unit letter
Upper(letter) ==
    CASE letter = "a" -> "A"
      [] letter = "f" -> "F"
      [] OTHER -> letter

\* the move separators: the hyphen, and the tokens that stand for the en
\* dash (U+2013) and the em dash (U+2014)
Dashes == {"-", "EN DASH", "EM DASH"}

\* the keywords of the order regexes, in the spellings IGNORECASE admits
Words ==
    [ hold |-> {"H", "Hold", "h", "hold"},
      support |-> {"S", "Support", "s", "support"},
      convoy |-> {"C", "Convoy", "c", "convoy"},
      retreat_disband |-> {"Disband", "D", "disband", "d"},
      build |-> {"Build", "build"},
      disband |-> {"Disband", "Remove", "disband", "remove"},
      waive |-> {"Waive", "waive"} ]

\* \(([^)]+)\): the coast tokens and the coast each holds
CoastOf(token) ==
    CASE token = "(South Coast)" -> "South Coast"
      [] token = "(North Coast)" -> "North Coast"
      [] OTHER -> None

\* [A-Za-z][A-Za-z .\-]+? matches the n tokens from the k-th on: tokens of
\* the characters of the class only (not a coast in parentheses, an en or em
\* dash, or a token with a digit or an angle bracket), spaces between them,
\* the first a letter, two characters at least
IsLoc(text, k, n) ==
    /\ k + n - 1 <= Len(text)
    /\ \A j \in k..(k + n - 1) :
          /\ text[j] \notin {"EN DASH", "EM DASH", "42", "->"}
          /\ CoastOf(text[j]) = None
    /\ text[k] # "-"
    /\ n = 1 => text[k] \notin UnitLetters \cup {"H", "h", "S", "s", "C", "c", "D", "d"}

\* the string that tokens make, as group(...).strip() returns it
RECURSIVE LocText(_)
LocText(tokens) ==
    IF Len(tokens) = 1 THEN tokens[1]
    ELSE tokens[1] \o " " \o LocText(Tail(tokens))

\* a name without the h or hold it ends in, in any case, when two characters
\* at least are left of it
WithoutHold(token) ==
    CASE token = "Munich" -> "Munic"
      [] token = "Edinburgh" -> "Edinburg"
      [] OTHER -> token

\* The pieces of a regex: a unit letter ([AF]), a location with its optional
\* coast (_LOC), a word of a set after white space (\s+), and at the end of
\* a regex a location with an optional word after optional white space (\s*).
PUnit == [piece |-> "unit"]
PLoc == [piece |-> "loc"]
PWord(words) == [piece |-> "word", words |-> words]
PLocOptional(words) == [piece |-> "loc_optional", words |-> words]

MOVE_RE == << PUnit, PLoc, PWord(Dashes), PLoc >>
HOLD_RE == << PUnit, PLoc, PWord(Words.hold) >>
SUPPORT_MOVE_RE ==
    << PUnit, PLoc, PWord(Words.support), PUnit, PLoc, PWord(Dashes), PLoc >>
SUPPORT_HOLD_RE ==
    << PUnit, PLoc, PWord(Words.support), PUnit, PLocOptional(Words.hold) >>
CONVOY_RE ==
    << PUnit, PLoc, PWord(Words.convoy), PUnit, PLoc, PWord(Dashes), PLoc >>
RETREAT_DISBAND_RE == << PUnit, PLoc, PWord(Words.retreat_disband) >>
BUILD_RE == << PWord(Words.build), PUnit, PLoc >>
WINTER_DISBAND_RE == << PWord(Words.disband), PUnit, PLoc >>
WAIVE_RE == << PWord(Words.waive) >>

\* re.match of the pieces from the i-th on against the tokens from the k-th
\* on: the groups captured (a unit letter; a location and its coast or
\* None), or NoMatch
NoMatch == << "no match" >>

RECURSIVE MatchFrom(_, _, _, _, _)
RECURSIVE LocFrom(_, _, _, _, _, _)

\* _LOC is lazy: the location is the n tokens from the k-th on for the least n
\* after which the rest of the regex matches; each n is tried once
LocFrom(regex, i, text, k, groups, n) ==
    IF k + n - 1 > Len(text) THEN NoMatch
    ELSE IF ~IsLoc(text, k, n) THEN LocFrom(regex, i, text, k, groups, n + 1)
    ELSE The({ IF m # NoMatch THEN m ELSE LocFrom(regex, i, text, k, groups, n + 1) :
               m \in { IF k + n <= Len(text) /\ CoastOf(text[k + n]) # None
                       THEN MatchFrom(regex, i + 1, text, k + n + 1,
                                      groups \o << LocText(SubSeq(text, k, k + n - 1)),
                                                   CoastOf(text[k + n]) >>)
                       ELSE MatchFrom(regex, i + 1, text, k + n,
                                      groups \o << LocText(SubSeq(text, k, k + n - 1)),
                                                   None >>) } })

MatchFrom(regex, i, text, k, groups) ==
    IF i > Len(regex) THEN IF k > Len(text) THEN groups ELSE NoMatch
    ELSE LET piece == regex[i]
             more == k <= Len(text)
         IN  CASE piece.piece = "unit" ->
                    IF more /\ text[k] \in UnitLetters
                    THEN MatchFrom(regex, i + 1, text, k + 1, Append(groups, text[k]))
                    ELSE NoMatch
               [] piece.piece = "loc" -> LocFrom(regex, i, text, k, groups, 1)
               [] piece.piece = "word" ->
                    IF more /\ text[k] \in piece.words
                    THEN MatchFrom(regex, i + 1, text, k + 1, groups)
                    ELSE NoMatch
               [] piece.piece = "loc_optional" ->
                    \* lazy again: the word may be the end of the last name,
                    \* since no white space need come before it
                    LET last == Len(text)
                        Cut(n) ==
                            /\ k + n - 1 = last
                            /\ IsLoc(text, k, n)
                            /\ WithoutHold(text[last]) # text[last]
                        Whole(n) ==
                            LET c == IF k + n <= last /\ CoastOf(text[k + n]) # None
                                     THEN 1 ELSE 0
                                h == IF k + n + c <= last /\ text[k + n + c] \in piece.words
                                     THEN 1 ELSE 0
                            IN  IsLoc(text, k, n) /\ k + n + c + h = last + 1
                        fits == {n \in 1..(last - k + 1) : Cut(n) \/ Whole(n)}
                        n == CHOOSE m \in fits : \A o \in fits : m <= o
                        tokens == SubSeq(text, k, k + n - 1)
                    IN  IF fits = {} THEN NoMatch
                        ELSE IF Cut(n)
                        THEN groups \o << LocText([tokens EXCEPT ![n] = WithoutHold(@)]),
                                          None >>
                        ELSE groups \o << LocText(tokens),
                                          IF k + n <= last THEN CoastOf(text[k + n])
                                          ELSE None >>

Match(regex, text) == MatchFrom(regex, 1, text, 1, << >>)

\* parse_order's None.  A parsed order is a dict, and TLC compares a dict
\* with a dict only: None is written as the dict whose type is None.
NoOrder == [type |-> None]

\* the fields every order with an acting unit has, from the groups of a match
Acting(type, groups) ==
    The({ [type |-> type, unit_type |-> Upper(m[1]), location |-> m[2], coast |-> m[3]] :
          m \in {groups} })

\* the fields of an order on another unit's move, under the names of the type
OnMove(type, groups) ==
    The({ IF type = "support_move"
          THEN [type |-> type, unit_type |-> Upper(m[1]),
                location |-> m[2], coast |-> m[3],
                supported_type |-> Upper(m[4]), supported_loc |-> m[5],
                supported_coast |-> m[6], destination |-> m[7], dest_coast |-> m[8]]
          ELSE [type |-> type, unit_type |-> Upper(m[1]),
                location |-> m[2], coast |-> m[3],
                convoyed_type |-> Upper(m[4]), convoyed_loc |-> m[5],
                convoyed_coast |-> m[6], destination |-> m[7], dest_coast |-> m[8]] :
          m \in {groups} })

ParseOrder(order_str) ==
    IF Match(WAIVE_RE, order_str) # NoMatch THEN [type |-> "waive"]
    ELSE IF Match(BUILD_RE, order_str) # NoMatch
    THEN Acting("build", Match(BUILD_RE, order_str))
    ELSE IF Match(WINTER_DISBAND_RE, order_str) # NoMatch
    THEN Acting("disband", Match(WINTER_DISBAND_RE, order_str))
    ELSE IF Match(RETREAT_DISBAND_RE, order_str) # NoMatch
    THEN Acting("retreat_disband", Match(RETREAT_DISBAND_RE, order_str))
    ELSE IF Match(SUPPORT_MOVE_RE, order_str) # NoMatch
    THEN OnMove("support_move", Match(SUPPORT_MOVE_RE, order_str))
    ELSE IF Match(CONVOY_RE, order_str) # NoMatch
    THEN OnMove("convoy", Match(CONVOY_RE, order_str))
    ELSE IF Match(SUPPORT_HOLD_RE, order_str) # NoMatch
    THEN The({ [type |-> "support_hold", unit_type |-> Upper(m[1]),
                location |-> m[2], coast |-> m[3],
                supported_type |-> Upper(m[4]), supported_loc |-> m[5],
                supported_coast |-> m[6]] :
               m \in {Match(SUPPORT_HOLD_RE, order_str)} })
    ELSE IF Match(MOVE_RE, order_str) # NoMatch
    THEN The({ [type |-> "move", unit_type |-> Upper(m[1]),
                location |-> m[2], coast |-> m[3],
                destination |-> m[4], dest_coast |-> m[5]] :
               m \in {Match(MOVE_RE, order_str)} })
    ELSE IF Match(HOLD_RE, order_str) # NoMatch
    THEN Acting("hold", Match(HOLD_RE, order_str))
    ELSE NoOrder

UnitTypeAbbrev(unit_type) ==
    IF unit_type \in {"Army", "A"} THEN "A"
    ELSE IF unit_type \in {"Fleet", "F"} THEN "F"
    ELSE unit_type

UnitMatches(unit_dict, unit_type, location) ==
    /\ UnitTypeAbbrev(unit_dict["type"]) = unit_type
    /\ BaseLoc(unit_dict["location"]) = BaseLoc(location)

MOVEMENT_PHASES == {"Spring Movement", "Fall Movement"}
DIPLOMACY_PHASES == {"Spring Diplomacy", "Fall Diplomacy"}
RETREAT_PHASES == {"Spring Retreat", "Fall Retreat"}
ADJUSTMENT_PHASES == {"Winter Adjustment"}

\* the retreat order types, were a hold allowed among them
RetreatTypesWithHold == {"move", "retreat_disband", "hold"}

MOVEMENT_ORDER_TYPES == {"move", "hold", "support_move", "support_hold", "convoy"}
RETREAT_ORDER_TYPES == {"move", "retreat_disband"}
ADJUSTMENT_ORDER_TYPES == {"build", "disband", "waive"}

\* The error messages of validate_order, each the sequence of the pieces its
\* f-string joins.
CannotParse(order_str) == << "Cannot parse order: ", order_str >>
NotValidIn(order_type, phase) == << "Order type '", order_type, "' not valid in ", phase >>
NoOrdersDuring(phase) == << "No orders accepted during ", phase >>
HasNo(power, unit_type, location) == << power, " has no ", unit_type, " at ", location >>
HasNoDislodged(power, unit_type, location) ==
    << power, " has no dislodged ", unit_type, " at ", location >>

\* validate_order, were the ownership test made before the phase tests
ValidateOrderOwnershipFirst(order_str, power, s) ==
  The({
    LET phase == s["phase"]
        order_type == parsed["type"]
        units == Get(s["units"], power, <<>>)
        dislodged == Get(s, "dislodged", <<>>)
    IN  IF parsed = NoOrder THEN << FALSE, NoOrder, CannotParse(order_str) >>
        ELSE IF /\ order_type \in MOVEMENT_ORDER_TYPES \cup {"retreat_disband"}
                /\ ~\E i \in 1..Len(units) :
                       UnitMatches(units[i], parsed["unit_type"], parsed["location"])
        THEN << FALSE, parsed, HasNo(power, parsed["unit_type"], parsed["location"]) >>
        ELSE IF \/ phase \in MOVEMENT_PHASES /\ order_type \notin MOVEMENT_ORDER_TYPES
                \/ phase \in RETREAT_PHASES /\ order_type \notin RETREAT_ORDER_TYPES
                \/ phase \in ADJUSTMENT_PHASES /\ order_type \notin ADJUSTMENT_ORDER_TYPES
        THEN << FALSE, parsed, NotValidIn(order_type, phase) >>
        ELSE IF phase \in DIPLOMACY_PHASES
        THEN << FALSE, parsed, NoOrdersDuring(phase) >>
        ELSE IF /\ phase \in RETREAT_PHASES
                /\ ~\E i \in 1..Len(dislodged) :
                       /\ dislodged[i]["power"] = power
                       /\ UnitMatches(dislodged[i]["unit"],
                                        parsed["unit_type"], parsed["location"])
        THEN << FALSE, parsed,
                HasNoDislodged(power, parsed["unit_type"], parsed["location"]) >>
        ELSE << TRUE, parsed, None >>
    : parsed \in {ParseOrder(order_str)} })

\* validate_order returns (is_valid, parsed_order_or_None, error_message_or_None)
ValidateOrder(order_str, power, s) ==
  The({
    LET phase == s["phase"]
        order_type == parsed["type"]
        wrong_type ==
            \/ phase \in MOVEMENT_PHASES /\ order_type \notin MOVEMENT_ORDER_TYPES
            \/ phase \in RETREAT_PHASES /\ order_type \notin RETREAT_ORDER_TYPES
            \/ phase \in ADJUSTMENT_PHASES /\ order_type \notin ADJUSTMENT_ORDER_TYPES
        units == Get(s["units"], power, <<>>)
        dislodged == Get(s, "dislodged", <<>>)
    IN  IF parsed = NoOrder THEN << FALSE, NoOrder, CannotParse(order_str) >>
        ELSE IF wrong_type THEN << FALSE, parsed, NotValidIn(order_type, phase) >>
        ELSE IF phase \in DIPLOMACY_PHASES
        THEN << FALSE, parsed, NoOrdersDuring(phase) >>
        ELSE IF /\ order_type \in MOVEMENT_ORDER_TYPES \cup {"retreat_disband"}
                /\ ~\E i \in 1..Len(units) :
                       UnitMatches(units[i], parsed["unit_type"], parsed["location"])
        THEN << FALSE, parsed, HasNo(power, parsed["unit_type"], parsed["location"]) >>
        ELSE IF /\ phase \in RETREAT_PHASES
                /\ order_type \in {"move", "retreat_disband"}
                /\ ~\E i \in 1..Len(dislodged) :
                       /\ dislodged[i]["power"] = power
                       /\ UnitMatches(dislodged[i]["unit"],
                                        parsed["unit_type"], parsed["location"])
        THEN << FALSE, parsed,
                HasNoDislodged(power, parsed["unit_type"], parsed["location"]) >>
        ELSE << TRUE, parsed, None >>
    : parsed \in {ParseOrder(order_str)} })

\* validate_orders' loop, were a second order for a unit turned down
RECURSIVE ValidateFromOnePerUnit(_, _, _, _, _)
ValidateFromOnePerUnit(lists, i, order_strings, power, s) ==
    IF i > Len(order_strings) THEN lists
    ELSE ValidateFromOnePerUnit(
            The({ IF /\ v[1]
                     /\ \A j \in 1..Len(lists.valid) :
                           Get(lists.valid[j][2], "location", None) # Get(v[2], "location", None)
                  THEN [lists EXCEPT !.valid = Append(@, << order_strings[i], v[2] >>)]
                  ELSE [lists EXCEPT !.errors = Append(@, << order_strings[i], v[3] >>)] :
                  v \in { ValidateOrder(order_strings[i], power, s) } }),
            i + 1, order_strings, power, s)

\* validate_orders' loop from the i-th order string on: the valid (order_str,
\* parsed) pairs and the (order_str, error) pairs so far, each in list order
RECURSIVE ValidateFrom(_, _, _, _, _)
ValidateFrom(lists, i, order_strings, power, s) ==
    IF i > Len(order_strings) THEN lists
    ELSE ValidateFrom(
            The({ IF v[1]
                  THEN [lists EXCEPT !.valid = Append(@, << order_strings[i], v[2] >>)]
                  ELSE [lists EXCEPT !.errors = Append(@, << order_strings[i], v[3] >>)] :
                  v \in { ValidateOrder(order_strings[i], power, s) } }),
            i + 1, order_strings, power, s)

ValidateOrders(order_strings, power, s) ==
    ValidateFrom([valid |-> << >>, errors |-> << >>], 1, order_strings, power, s)

\* The tokens of a location written into an order text: its name, and its
\* coast in parentheses when the game state holds one.
LocTokens(location) ==
    CASE location = "St Petersburg (South Coast)" -> << "St Petersburg", "(South Coast)" >>
      [] location = "Spain (South Coast)" -> << "Spain", "(South Coast)" >>
      [] OTHER -> << location >>

\* f"{ut} {location} {word}"
OrderText(unit, word) ==
    << UnitTypeAbbrev(unit["type"]) >> \o LocTokens(unit["location"]) \o << word >>

\* default_orders, were a dislodged unit retreated to the first destination of
\* its record
DefaultOrdersRetreating(power, s) ==
    LET units == Get(s["units"], power, <<>>)
        dislodged == SelectSeq(Get(s, "dislodged", <<>>), LAMBDA d : d["power"] = power)
    IN  IF s["phase"] \in MOVEMENT_PHASES
        THEN [i \in 1..Len(units) |-> OrderText(units[i], "H")]
        ELSE IF s["phase"] \in RETREAT_PHASES
        THEN [i \in 1..Len(dislodged) |->
                 OrderText(dislodged[i]["unit"], "-") \o << dislodged[i]["retreats"][1] >>]
        ELSE << >>

DefaultOrders(power, s) ==
    LET units == Get(s["units"], power, <<>>)
        dislodged == SelectSeq(Get(s, "dislodged", <<>>), LAMBDA d : d["power"] = power)
    IN  IF s["phase"] \in MOVEMENT_PHASES
        THEN [i \in 1..Len(units) |-> OrderText(units[i], "H")]
        ELSE IF s["phase"] \in RETREAT_PHASES
        THEN [i \in 1..Len(dislodged) |-> OrderText(dislodged[i]["unit"], "Disband")]
        ELSE << >>

\* collect_orders' fallback for one power: its default orders, and its name
\* among the defaults
ByDefault(result, power, s) ==
    [result EXCEPT !.orders = Put(@, power, DefaultOrders(power, s)),
                   !.defaults = Append(@, power)]

\* collect_orders' record of errors, were the errors of one power recorded
\* under every power
WithErrorsShared(result, power, errors) ==
    IF errors # << >> THEN [result EXCEPT !.errors = [q \in Range(POWERS) |-> errors]]
    ELSE result

\* collect_orders' record of the errors of one power, if it has any
WithErrors(result, power, errors) ==
    IF errors # << >> THEN [result EXCEPT !.errors = Put(@, power, errors)]
    ELSE result

\* the body of collect_orders' loop, were the errors of a power dropped when
\* none of its orders is valid
CollectPowerErrorsLost(result, power, all_decrypted, s) ==
    IF power \in Range(Get(s, "eliminated", <<>>))
    THEN [result EXCEPT !.orders = Put(@, power, <<>>)]
    ELSE IF ~all_decrypted[power].exists THEN ByDefault(result, power, s)
    ELSE The({ IF checked.valid # << >>
               THEN [WithErrors(result, power, checked.errors) EXCEPT !.orders =
                        Put(@, power, [i \in 1..Len(checked.valid) |-> checked.valid[i][1]])]
               ELSE ByDefault(result, power, s) :
               checked \in { ValidateOrders(
                        Get(all_decrypted[power].data, "orders", <<>>), power, s) } })

\* the body of collect_orders' loop for one power, on the result so far
CollectPower(result, power, all_decrypted, s) ==
    IF power \in Range(Get(s, "eliminated", <<>>))
    THEN [result EXCEPT !.orders = Put(@, power, <<>>)]
    ELSE IF ~all_decrypted[power].exists THEN ByDefault(result, power, s)
    ELSE The({ IF checked.valid # << >>
               THEN [with_errors EXCEPT !.orders =
                        Put(@, power, [i \in 1..Len(checked.valid) |-> checked.valid[i][1]])]
               ELSE ByDefault(with_errors, power, s) :
               with_errors \in { WithErrors(result, power, checked.errors) :
                    checked \in { ValidateOrders(
                        Get(all_decrypted[power].data, "orders", <<>>), power, s) } },
               checked \in { ValidateOrders(
                        Get(all_decrypted[power].data, "orders", <<>>), power, s) } })

RECURSIVE CollectFrom(_, _, _, _)
CollectFrom(result, i, all_decrypted, s) ==
    IF i > Len(POWERS) THEN result
    ELSE The({ CollectFrom(r, i + 1, all_decrypted, s) :
               r \in { CollectPower(result, POWERS[i], all_decrypted, s) } })

\* collect_orders, given what decrypt_all_orders read for each power: whether
\* the file of its submission exists (without it decrypt_orders gives None),
\* and the order data of the file
CollectOrders(all_decrypted, s) ==
    CollectFrom([orders |-> EmptyDict, errors |-> EmptyDict, defaults |-> << >>],
                1, all_decrypted, s)

-----------------------------------------------------------------------------
(* Bounds of the model *)

\* the last game year a game enters
MaxYear == 1902

\* the most consecutive next_phase calls followed from one starting point
MaxAdvance == 15

-----------------------------------------------------------------------------
(* Inputs: replies of the jDip process, in jDip's spelling *)

JdipStartUnits ==
    [STARTING_UNITS EXCEPT !.Russia =
        << Fleet("St. Petersburg (South Coast)"), Army("Moscow"),
           Army("Warsaw"), Fleet("Sevastopol") >>]

\* France has taken Belgium and Spain
JdipUnitsMoved ==
    [JdipStartUnits EXCEPT !.France =
        << Fleet("Spain (South Coast)"), Army("Belgium"), Army("Marseilles") >>]

\* moreover Italy has taken Trieste and dislodged the Austrian fleet there,
\* and Russia stands on the three Turkish centers, Turkey having no unit left
JdipUnitsDislodged ==
    [JdipUnitsMoved EXCEPT
        !.Austria = << Army("Vienna"), Army("Budapest") >>,
        !.Italy = << Fleet("Naples"), Army("Venice"), Army("Trieste") >>,
        !.Russia = << Fleet("St. Petersburg (South Coast)"), Army("Smyrna"),
                      Army("Constantinople"), Fleet("Ankara") >>,
        !.Turkey = << >>]

DislodgedTrieste ==
    << [power |-> "Austria", unit |-> Fleet("Trieste"),
        retreats |-> << "Albania", "Adriatic Sea" >>] >>

JdipName(name) == IF name = "St Petersburg" THEN "St. Petersburg" ELSE name

JdipOwnStart ==
    [sc \in {JdipName(HOME_CENTERS[p][i]) : p \in DOMAIN HOME_CENTERS, i \in 1..3}
            \cup {JdipName(HOME_CENTERS["Russia"][4])} |->
        CHOOSE p \in DOMAIN HOME_CENTERS :
            \E i \in 1..Len(HOME_CENTERS[p]) : JdipName(HOME_CENTERS[p][i]) = sc]

\* the first n supply centers are France's, the others Germany's
JdipOwnSplit(n) ==
    [sc \in {JdipName(ALL_SUPPLY_CENTERS[i]) : i \in 1..Len(ALL_SUPPLY_CENTERS)} |->
        IF \E i \in 1..n : JdipName(ALL_SUPPLY_CENTERS[i]) = sc
        THEN "France" ELSE "Germany"]

\* The replies of the jDip process to an adjudicate request, by name.  A
\* reply is "ok" with the JSON object printed, or the exception _run_jdip
\* raises.
JdipReplies ==
    [ moved |->
        [status |-> "ok",
         result |-> [resolved_units |-> JdipUnitsMoved, dislodged |-> <<>>]],
      dislodged |->
        [status |-> "ok",
         result |-> [resolved_units |-> JdipUnitsDislodged,
                     dislodged |-> DislodgedTrieste,
                     sc_ownership |-> EmptyDict, game_over |-> FALSE]],
      owns_18 |->
        [status |-> "ok",
         result |-> [resolved_units |-> JdipUnitsMoved, dislodged |-> <<>>,
                     sc_ownership |-> JdipOwnSplit(18), game_over |-> FALSE]],
      game_over |->
        [status |-> "ok",
         result |-> [resolved_units |-> JdipUnitsMoved, dislodged |-> <<>>,
                     sc_ownership |-> JdipOwnSplit(18), game_over |-> TRUE]],
      owns_17 |->
        [status |-> "ok",
         result |-> [sc_ownership |-> JdipOwnSplit(17), game_over |-> TRUE]],
      owns_16 |->
        [status |-> "ok",
         result |-> [sc_ownership |-> JdipOwnSplit(16), game_over |-> TRUE]],
      exit_status |-> [status |-> "RuntimeError"],
      timeout |-> [status |-> "TimeoutExpired"],
      unreadable |-> [status |-> "JSONDecodeError"] ]

\* the names of the replies that carry a result
OkReplies == {name \in DOMAIN JdipReplies : JdipReplies[name].status = "ok"}

\* the result of jdip_adjudicate for the reply of that name
ResultOf(name) == NormalizeResult(JdipReplies[name].result)

\* the replies that report no dislodged unit, or no result at all
NoneDislodged(name) ==
    name \in OkReplies => Get(ResultOf(name), "dislodged", <<>>) = <<>>

JdipInits ==
    { [status |-> "unavailable"],
      [status |-> "RuntimeError"],
      [status |-> "TimeoutExpired"],
      [status |-> "JSONDecodeError"],
      [status |-> "ok",
       result |-> [units |-> JdipStartUnits, sc_ownership |-> JdipOwnStart]] }

(* Inputs: retreat orders and adjustments given by the caller, by name *)

RetreatOrders ==
    [ retreat |->
        << [power |-> "Austria", unit |-> Fleet("Trieste"),
            action |-> "retreat", destination |-> "Albania"] >>,
      disband |->
        << [power |-> "Austria", unit |-> Fleet("Trieste"), action |-> "disband"] >> ]

Adjustments ==
    [ build |->
        << << "France", << [action |-> "build", unit |-> Fleet("Brest")] >> >> >>,
      disband |->
        << << "France", << [action |-> "disband", unit |-> Army("Marseilles")] >> >> >> ]

\* The callers of apply_retreats give orders for dislodged units only (the
\* dislodged unit is "already not in the units list"), a retreat to one of
\* the destinations of its record.
RetreatsOfDislodged(s, retreat_orders) ==
    \A i \in 1..Len(retreat_orders) :
        \E j \in 1..Len(Get(s, "dislodged", <<>>)) :
            LET order == retreat_orders[i]
                d == s["dislodged"][j]
            IN  /\ d["power"] = order["power"]
                /\ d["unit"] = order["unit"]
                /\ order["action"] = "retreat" =>
                       order["destination"] \in Range(Get(d, "retreats", <<>>))

\* The callers of apply_adjustments build for a power that owns more supply
\* centers than units, on a province none of its units stands on, and
\* disband a unit the power has.
AdjustmentsAllowed(s, adjustments) ==
    \A i \in 1..Len(adjustments) :
        LET power == adjustments[i][1]
            actions == adjustments[i][2]
        IN  \A k \in 1..Len(actions) :
                IF actions[k]["action"] = "build"
                THEN /\ AdjustmentCounts(s)[power] > 0
                     /\ \A u \in Range(Get(s["units"], power, <<>>)) :
                            BaseLoc(u.location) # BaseLoc(actions[k]["unit"].location)
                ELSE actions[k]["unit"] \in Range(Get(s["units"], power, <<>>))

-----------------------------------------------------------------------------
(* The phase of the game and what the callers do in it *)

Diplomacy == {"Spring Diplomacy", "Fall Diplomacy"}

Movement == {"Spring Movement", "Fall Movement"}

Retreat == {"Spring Retreat", "Fall Retreat"}

Pending(s) == Get(s, "dislodged", <<>>) # <<>>

\* The game leaves a phase by next_phase when the phase has no orders to
\* resolve (Diplomacy), when its orders were resolved by apply_orders,
\* apply_retreats or apply_adjustments, or when no unit awaits a retreat.
MayAdvance ==
    \/ state["phase"] \in Diplomacy
    \/ state["phase"] \in Movement /\ op = "apply_orders"
    \/ state["phase"] \in Retreat /\ ~Pending(state)
    \/ state["phase"] = "Winter Adjustment" /\ state["year"] < MaxYear

\* jDip resolves the orders of a Movement phase, of a Retreat phase with
\* units awaiting retreat (no unit is dislodged by a retreat) and of Winter
\* Adjustment (no unit is dislodged by a build).
MayAdjudicate(name) ==
    \/ state["phase"] \in Movement
    \/ state["phase"] \in Retreat /\ Pending(state) /\ NoneDislodged(name)
    \/ state["phase"] = "Winter Adjustment" /\ state["year"] < MaxYear
         /\ NoneDislodged(name)

-----------------------------------------------------------------------------
(* Actions: one call of one operation on the game state *)

Call(name, a, out, r) ==
    /\ op' = name
    /\ prev' = state
    /\ arg' = a
    /\ state' = out.state
    /\ err' = out.err
    /\ upd' = out.upd
    /\ ret' = r

\* update_sc_ownership calls are counted by game year
Account ==
    /\ sc_updates' = IF state'["year"] # state["year"] THEN 0 ELSE sc_updates + upd'
    /\ UNCHANGED <<start, n_adv, log>>

GameNextPhase ==
    /\ MayAdvance
    /\ Call("next_phase", None, Outcome(NextPhase(state), 0, None), None)
    /\ Account

GameSkipRetreatIfEmpty ==
    /\ Call("skip_retreat_if_empty", None,
            Outcome(SkipRetreatIfEmpty(state), 0, None), None)
    /\ Account

GameCheckElimination ==
    /\ Call("check_elimination", None, Outcome(CheckElimination(state), 0, None), None)
    /\ Account

GameCheckWin ==
    /\ Call("check_win", None, Outcome(state, 0, None), CheckWin(state))
    /\ Account

GameAdjustmentCounts ==
    /\ Call("adjustment_counts", None, Outcome(state, 0, None), AdjustmentCounts(state))
    /\ Account

GameApplyOrders ==
    \E name \in OkReplies :
        /\ state["phase"] \in Movement
        /\ op # "apply_orders"
        /\ Call("apply_orders", name, ApplyOrders(state, ResultOf(name)), None)
        /\ Account

GameAdjudicate ==
    \E name \in DOMAIN JdipReplies :
        /\ MayAdjudicate(name)
        /\ Call("adjudicate", name, Adjudicate(state, JdipReplies[name]), None)
        /\ Account

GameApplyRetreats ==
    \E name \in DOMAIN RetreatOrders :
        /\ state["phase"] \in Retreat
        /\ Pending(state)
        /\ RetreatsOfDislodged(state, RetreatOrders[name])
        /\ Call("apply_retreats", name, ApplyRetreats(state, RetreatOrders[name]), None)
        /\ Account

GameApplyAdjustments ==
    \E name \in DOMAIN Adjustments :
        /\ state["phase"] = "Winter Adjustment"
        /\ op # "apply_adjustments"
        /\ AdjustmentsAllowed(state, Adjustments[name])
        /\ Call("apply_adjustments", name,
                ApplyAdjustments(state, Adjustments[name]), None)
        /\ Account

-----------------------------------------------------------------------------
(* Spec: a game from new_game on, each operation called in its phases *)

Init ==
    /\ state \in {NewGame(init) : init \in {i \in JdipInits : NewGameErr(i) = None}}
    /\ prev = state
    /\ op = "new_game"
    /\ arg = None
    /\ ret = None
    /\ err = None
    /\ upd = 0
    /\ sc_updates = 0
    /\ start = <<"Spring Diplomacy", 1901>>
    /\ n_adv = 0
    /\ log = NoMessages

Next ==
    \/ GameNextPhase
    \/ GameSkipRetreatIfEmpty
    \/ GameCheckElimination
    \/ GameCheckWin
    \/ GameAdjustmentCounts
    \/ GameApplyOrders
    \/ GameAdjudicate
    \/ GameApplyRetreats
    \/ GameApplyAdjustments

Spec == Init /\ [][Next]_vars

-----------------------------------------------------------------------------
(* SpecPhase: the phase functions alone, from any phase of a game.  At most
   MaxAdvance next_phase calls are followed from the starting point. *)

\* A game state in the given phase and year: a fresh game whose phase and
\* year moved on, with the "dislodged" key absent (no order was applied
\* yet), empty, or holding a unit that awaits its retreat.
PhaseStates ==
    LET fresh == NewGame([status |-> "unavailable"])
        at(phase, year) == [fresh EXCEPT !["phase"] = phase, !["year"] = year]
    IN  UNION { { at(phase, year),
                  Put(at(phase, year), "dislodged", <<>>),
                  Put(at(phase, year), "dislodged", DislodgedTrieste) } :
                phase \in Range(PHASE_ORDER), year \in 1901..MaxYear }

InitPhase ==
    /\ state \in PhaseStates
    /\ prev = state
    /\ op = "new_game"
    /\ arg = None
    /\ ret = None
    /\ err = None
    /\ upd = 0
    /\ sc_updates = 0
    /\ start = <<state["phase"], state["year"]>>
    /\ n_adv = 0
    /\ log = NoMessages

PhaseNextPhase ==
    /\ n_adv < MaxAdvance
    /\ Call("next_phase", None, Outcome(NextPhase(state), 0, None), None)
    /\ n_adv' = n_adv + 1
    /\ UNCHANGED <<sc_updates, start, log>>

\* skip_retreat_if_empty called before the run of next_phase calls begins
PhaseSkipRetreatIfEmpty ==
    /\ n_adv = 0
    /\ Call("skip_retreat_if_empty", None,
            Outcome(SkipRetreatIfEmpty(state), 0, None), None)
    /\ start' = <<state'["phase"], state'["year"]>>
    /\ UNCHANGED <<sc_updates, n_adv, log>>

NextPhaseSpec ==
    \/ PhaseNextPhase
    \/ PhaseSkipRetreatIfEmpty

SpecPhase == InitPhase /\ [][NextPhaseSpec]_vars

-----------------------------------------------------------------------------
(* SpecJdip: new_game and simulate, the operations besides adjudicate that
   call the jDip process, from any phase of a game and with every reply of
   the process *)

JdipNewGame ==
    \E init \in JdipInits :
        /\ Call("new_game", init.status,
                Outcome(IF NewGameErr(init) = None THEN NewGame(init) ELSE state,
                        0, NewGameErr(init)),
                None)
        /\ UNCHANGED <<sc_updates, start, n_adv, log>>

JdipSimulate ==
    \E name \in DOMAIN JdipReplies :
        /\ Call("simulate", name,
                Outcome(state, 0, Simulate(state, JdipReplies[name]).err),
                Simulate(state, JdipReplies[name]).ret)
        /\ UNCHANGED <<sc_updates, start, n_adv, log>>

NextJdip ==
    \/ JdipNewGame
    \/ JdipSimulate

SpecJdip == InitPhase /\ [][NextJdip]_vars

-----------------------------------------------------------------------------
(* Inputs: order texts and submissions *)

\* order texts, by name, as the tokens that whitespace separates
Texts ==
    [ HoldMarseilles |-> << "A", "Marseilles", "H" >>,
      HoldMunich |-> << "A", "Munich", "H" >>,
      HoldStPetersburg |-> << "f", "St Petersburg", "(South Coast)", "hold" >>,
      MoveMarseilles |-> << "A", "Marseilles", "-", "Burgundy" >>,
      SupportMove |-> << "A", "Marseilles", "S", "F", "Brest", "EN DASH", "Gascony" >>,
      SupportHold |-> << "A", "Marseilles", "S", "F", "Brest" >>,
      ConvoyArmy |-> << "F", "Brest", "C", "A", "Paris", "-", "Wales" >>,
      RetreatTrieste |-> << "F", "Trieste", "-", "Albania" >>,
      RetreatVienna |-> << "F", "Trieste", "-", "Vienna" >>,
      DisbandTrieste |-> << "F", "Trieste", "Disband" >>,
      BuildParis |-> << "Build", "A", "Paris" >>,
      RemoveMunich |-> << "Remove", "A", "Munich" >>,
      Waive |-> << "Waive" >>,
      Weird |-> << "do", "something", "weird" >> ]

OrderTexts == {Texts[name] : name \in DOMAIN Texts} \cup {<< >>}

\* lists of order texts given to validate_orders, by name
OrderLists ==
    [ empty |-> << >>,
      partial |-> << Texts.HoldMarseilles >>,
      mixed |-> << Texts.Weird, Texts.MoveMarseilles, Texts.HoldMunich, Texts.SupportHold >>,
      invalid |-> << Texts.Weird, Texts.HoldMunich >>,
      same_unit |-> << Texts.HoldMarseilles, Texts.MoveMarseilles >>,
      same_text |-> << Texts.HoldMarseilles, Texts.Weird, Texts.HoldMarseilles, Texts.Weird >>,
      winter |-> << Texts.BuildParis, Texts.Waive, Texts.HoldMunich, Texts.RemoveMunich >> ]

\* the powers whose orders are validated
Submitters == {"France", "Austria", "Russia"}

\* What decrypt_orders reads for a power, by name: no file, or the order
\* data of the file.
OrderData ==
    [ none |-> [exists |-> FALSE],
      no_orders |-> [exists |-> TRUE, data |-> [power |-> "?"]],
      empty |-> [exists |-> TRUE, data |-> [orders |-> << >>]],
      partial |-> [exists |-> TRUE, data |-> [orders |-> << Texts.HoldMarseilles >>]],
      mixed |-> [exists |-> TRUE,
                 data |-> [orders |-> << Texts.Weird, Texts.MoveMarseilles, Texts.HoldMunich, Texts.SupportHold >>]],
      invalid |-> [exists |-> TRUE, data |-> [orders |-> << Texts.Weird, Texts.HoldMunich >>]],
      retreat |-> [exists |-> TRUE, data |-> [orders |-> << Texts.RetreatTrieste >>]] ]

\* Who submitted what: France and Austria any order data, Turkey none or
\* invalid orders, the other powers none.
SubmissionNames ==
    [ France : DOMAIN OrderData,
      Austria : {"none", "retreat", "invalid"},
      Turkey : {"none", "invalid"} ]

\* decrypt_all_orders: the order data of each of the seven powers
AllDecrypted(names) ==
    [p \in Range(POWERS) |->
        IF p \in DOMAIN names THEN OrderData[names[p]] ELSE OrderData["none"]]

-----------------------------------------------------------------------------
(* SpecOrders: a game driven by adjudicate and apply_retreats, with the
   orders of its powers validated, defaulted and collected in every state *)

OrdersNextPhase ==
    /\ \/ state["phase"] \in DIPLOMACY_PHASES
       \/ state["phase"] \in RETREAT_PHASES /\ ~Pending(state)
       \/ state["phase"] \in ADJUSTMENT_PHASES /\ state["year"] < MaxYear
    /\ Call("next_phase", None, Outcome(NextPhase(state), 0, None), None)
    /\ Account

OrdersAdjudicate ==
    \E name \in {"moved", "dislodged"} :
        /\ state["phase"] \in MOVEMENT_PHASES
        /\ Call("adjudicate", name, Adjudicate(state, JdipReplies[name]), None)
        /\ Account

OrdersApplyRetreats ==
    \E name \in DOMAIN RetreatOrders :
        /\ state["phase"] \in RETREAT_PHASES
        /\ Pending(state)
        /\ RetreatsOfDislodged(state, RetreatOrders[name])
        /\ Call("apply_retreats", name, ApplyRetreats(state, RetreatOrders[name]), None)
        /\ Account

\* The functions of orders.py read the game state and leave it alone: calling
\* one after another meets no state that a call made right after a game
\* operation does not meet.
AfterGameOperation ==
    op \in {"new_game", "next_phase", "adjudicate", "apply_retreats"}

OrdersValidate ==
    \E order_str \in OrderTexts, power \in Submitters :
        /\ AfterGameOperation
        /\ Call("validate_order", << order_str, power >>, Outcome(state, 0, None),
                ValidateOrder(order_str, power, state))
        /\ Account

OrdersValidateAll ==
    \E name \in DOMAIN OrderLists, power \in Submitters :
        /\ AfterGameOperation
        /\ Call("validate_orders", << name, power >>, Outcome(state, 0, None),
                ValidateOrders(OrderLists[name], power, state))
        /\ Account

\* default_orders, were the Dislodged Records it reads taken off the state
OrdersDefaultClearing ==
    \E power \in Range(POWERS) :
        /\ AfterGameOperation
        /\ Call("default_orders", power, Outcome(Put(state, "dislodged", << >>), 0, None),
                DefaultOrders(power, state))
        /\ Account

OrdersDefault ==
    \E power \in Range(POWERS) :
        /\ AfterGameOperation
        /\ Call("default_orders", power, Outcome(state, 0, None),
                DefaultOrders(power, state))
        /\ Account

OrdersCollect ==
    \E names \in SubmissionNames :
        /\ AfterGameOperation
        /\ Call("collect_orders", names, Outcome(state, 0, None),
                CollectOrders(AllDecrypted(names), state))
        /\ Account

NextOrders ==
    \/ OrdersNextPhase
    \/ OrdersAdjudicate
    \/ OrdersApplyRetreats
    \/ OrdersValidate
    \/ OrdersValidateAll
    \/ OrdersDefault
    \/ OrdersCollect

SpecOrders == Init /\ [][NextOrders]_vars

-----------------------------------------------------------------------------
(* SpecParse: parse_order applied to order strings of every form, with the
   unit type written as a letter or as the full word, in upper and lower case *)

\* the spellings of a unit type in an order string
UnitSpellings == {"A", "F", "a", "f", "Army", "Fleet"}

\* the order strings given to parse_order, by the form each is written in
ParseForms ==
    [ waive |-> {<< w >> : w \in Words.waive},
      build |->
        {<< w, u, "Paris" >> : w \in Words.build, u \in UnitSpellings}
        \cup {<< "Build", u, "St Petersburg", "(South Coast)" >> : u \in UnitSpellings},
      disband |->
        {<< w, u, "Munich" >> : w \in Words.disband, u \in UnitSpellings},
      retreat_disband |->
        {<< u, "Trieste", w >> : u \in UnitSpellings, w \in Words.retreat_disband},
      support_move |->
        {<< u, "Marseilles", w, v, "Brest", d, "Gascony" >> :
            u \in UnitSpellings, w \in {"S", "support"}, v \in {"F", "Fleet"},
            d \in {"-", "EN DASH"}},
      convoy |->
        {<< u, "Brest", w, v, "Paris", "-", "Wales" >> :
            u \in UnitSpellings, w \in {"C", "convoy"}, v \in {"A", "Army"}},
      support_hold |->
        {<< u, "Marseilles", w, v, "Brest" >> \o h :
            u \in UnitSpellings, w \in {"S", "Support"}, v \in {"F", "Fleet"},
            h \in {<< >>, << "H" >>, << "hold" >>}}
        \cup {<< "A", "Berlin", "S", "A", name >> \o h :
                 name \in Range(ALL_SUPPLY_CENTERS), h \in {<< >>, << "H" >>}},
      move |->
        {<< u, loc, d, "Burgundy" >> :
            u \in UnitSpellings, loc \in {"Marseilles", "marseilles"}, d \in Dashes},
      hold |->
        {<< u, loc, w >> :
            u \in UnitSpellings, loc \in {"Marseilles", "marseilles"}, w \in Words.hold}
        \cup {<< u, "St Petersburg", c, "H" >> :
                 u \in {"F", "f"}, c \in {"(South Coast)", "(North Coast)"}} ]

\* strings in none of the forms
Malformed ==
    { << >>, << "do", "something", "weird" >>, << "A", "Marseilles" >>,
      << "A", "Marseilles", "->", "Burgundy" >>, << "A", "42", "H" >>,
      << "Waive", "A", "Paris" >> }

ParseTexts == UNION {ParseForms[form] : form \in DOMAIN ParseForms} \cup Malformed

OrdersParse ==
    \E order_str \in ParseTexts :
        /\ Call("parse_order", order_str, Outcome(state, 0, None), ParseOrder(order_str))
        /\ Account

SpecParse == Init /\ [][OrdersParse]_vars

-----------------------------------------------------------------------------
(* Messages (message_router.py).  The state is the messages directory: the  *)
(* files of the outboxes and of the inboxes, each under << power, filename  *)
(* >>, and the files of the archive, each under << year, phase label,       *)
(* subdir, power, filename >>, with the ciphertext every file holds.  A     *)
(* filename is the tuple of the parts that MSG_PATTERN names.               *)

\* phase.replace(" ", "_")
PhaseLabel(phase) ==
    CASE phase = "Spring Diplomacy" -> "Spring_Diplomacy"
      [] phase = "Fall Diplomacy" -> "Fall_Diplomacy"
      [] OTHER -> phase

\* m.group("phase").replace("_", " ")
LabelPhase(phase_label) ==
    CASE phase_label = "Spring_Diplomacy" -> "Spring Diplomacy"
      [] phase_label = "Fall_Diplomacy" -> "Fall Diplomacy"
      [] OTHER -> phase_label

MessageFilename(sender, recipient, phase, round_num, seq) ==
    << sender, recipient, PhaseLabel(phase), round_num, seq >>

ParseMessageFilename(filename) ==
    [sender |-> filename[1], recipient |-> filename[2],
     phase |-> LabelPhase(filename[3]), round |-> filename[4], seq |-> filename[5]]

\* the files of a directory tree d but those under the paths gone
Without(d, gone) == [path \in DOMAIN d \ gone |-> d[path]]

\* next_seq scans the sender's outbox, and nothing else
NextSeq(s, sender, recipient, phase, round_num) ==
    LET prefix == << sender, recipient, PhaseLabel(phase), round_num >>
        seqs == {ParseMessageFilename(path[2])["seq"] :
                    path \in {f \in DOMAIN s["outbox"] :
                                 f[1] = sender /\ SubSeq(f[2], 1, 4) = prefix}}
    IN  IF seqs = {} THEN 1
        ELSE (CHOOSE max_seq \in seqs : \A seq \in seqs : seq <= max_seq) + 1

\* send_message: the state after it and the path it returns
SendMessage(s, sender, recipient, phase, round_num, ciphertext) ==
    LET seq == NextSeq(s, sender, recipient, phase, round_num)
        fname == MessageFilename(sender, recipient, phase, round_num, seq)
    IN  [state |-> [s EXCEPT !["outbox"] = Put(@, << sender, fname >>, ciphertext)],
         ret |-> << "outbox", sender, fname >>]

\* the powers init_message_dirs made the directories of
MessagePowers == {"France", "Germany", "England"}

\* route_messages copies the outbox files of the powers it routes whose name
\* is not in the inbox of the recipient the name gives: the state after it
\* and the (source, dest) pairs it returns, in no order
RouteMessages(s, sender) ==
    LET routed ==
            {<< f, << ParseMessageFilename(f[2])["recipient"], f[2] >> >> :
                f \in {g \in DOMAIN s["outbox"] :
                         /\ g[1] \in (IF sender # None THEN {sender} ELSE MessagePowers)
                         /\ << ParseMessageFilename(g[2])["recipient"], g[2] >>
                                \notin DOMAIN s["inbox"]}}
    IN  [state |->
            [s EXCEPT !["inbox"] =
                [dest \in DOMAIN @ \cup {pair[2] : pair \in routed} |->
                    IF dest \in DOMAIN @ THEN @[dest]
                    ELSE s["outbox"][(CHOOSE pair \in routed : pair[2] = dest)[1]]]],
         ret |-> routed]

\* archive_phase moves the files of the phase out of the inboxes and the
\* outboxes; shutil.move replaces a file of the same name in the archive
ArchivePhase(s, year, phase) ==
    LET Moved(subdir) ==
            {f \in DOMAIN s[subdir] : ParseMessageFilename(f[2])["phase"] = phase}
        Dest(subdir, f) == << year, PhaseLabel(phase), subdir, f[1], f[2] >>
        dests == {Dest("inbox", f) : f \in Moved("inbox")}
                   \cup {Dest("outbox", f) : f \in Moved("outbox")}
    IN  [inbox |-> Without(s["inbox"], Moved("inbox")),
         outbox |-> Without(s["outbox"], Moved("outbox")),
         archive |->
            [dest \in DOMAIN s["archive"] \cup dests |->
                IF dest \in dests THEN s[dest[3]][<< dest[4], dest[5] >>]
                ELSE s["archive"][dest]]]

\* clear_inboxes unlinks the inbox files, or those of the phase
ClearInboxes(s, phase) ==
    [s EXCEPT !["inbox"] =
        Without(@, {f \in DOMAIN @ :
                       phase = None \/ ParseMessageFilename(f[2])["phase"] = phase})]

-----------------------------------------------------------------------------
(* SpecMessages: messages sent, routed, cleared from the inboxes and
   archived, in any order *)

\* the most messages sent, and the most copies made of one message
MaxSent == 2
MaxCopied == 2

\* the messages sent: sender, recipient, phase and round of each
Sends ==
    { << "France", "Germany", "Spring Diplomacy", 1 >>,
      << "France", "Germany", "Spring Diplomacy", 2 >>,
      << "France", "England", "Spring Diplomacy", 1 >>,
      << "England", "Germany", "Spring Diplomacy", 1 >>,
      << "France", "Germany", "Fall Diplomacy", 1 >> }

\* the directories init_message_dirs makes, empty
InitMessages ==
    /\ state = [outbox |-> EmptyDict, inbox |-> EmptyDict, archive |-> EmptyDict]
    /\ prev = state
    /\ op = "init_message_dirs"
    /\ arg = None
    /\ ret = None
    /\ err = None
    /\ upd = 0
    /\ sc_updates = 0
    /\ start = <<"Spring Diplomacy", 1901>>
    /\ n_adv = 0
    /\ log = NoMessages

\* the ciphertext of a message is its number in the order of sending
MessagesSend ==
    \E m \in Sends :
        /\ Len(log["sent"]) < MaxSent
        /\ \E sent \in {SendMessage(state, m[1], m[2], m[3], m[4], Len(log["sent"]) + 1)} :
              /\ Call("send_message", m, Outcome(sent["state"], 0, None), sent["ret"])
              /\ log' = [log EXCEPT !["sent"] =
                            Append(@, << sent["ret"][3], Len(log["sent"]) + 1 >>)]
        /\ UNCHANGED <<sc_updates, start, n_adv>>

\* a copy made is counted under the filename, the ciphertext and the inbox
MessagesRoute ==
    \E sender \in {None, "France"} :
        \E routed \in {RouteMessages(state, sender)} :
            \E copies \in {{<< pair[2][2], state["outbox"][pair[1]], pair[2][1] >> :
                              pair \in routed["ret"]}} :
                /\ \A copy \in copies : Get(log["copied"], copy, 0) < MaxCopied
                /\ Call("route_messages", sender, Outcome(routed["state"], 0, None),
                        routed["ret"])
                /\ log' = [log EXCEPT !["copied"] =
                              [copy \in DOMAIN @ \cup copies |->
                                  IF copy \in copies THEN Get(@, copy, 0) + 1
                                  ELSE @[copy]]]
                /\ UNCHANGED <<sc_updates, start, n_adv>>

MessagesClearInboxes ==
    \E phase \in {None, "Spring Diplomacy"} :
        /\ Call("clear_inboxes", phase, Outcome(ClearInboxes(state, phase), 0, None), None)
        /\ UNCHANGED <<sc_updates, start, n_adv, log>>

MessagesArchivePhase ==
    \E phase \in {"Spring Diplomacy", "Fall Diplomacy"} :
        /\ Call("archive_phase", << 1901, phase >>,
                Outcome(ArchivePhase(state, 1901, phase), 0, None), None)
        /\ UNCHANGED <<sc_updates, start, n_adv, log>>

NextMessages ==
    \/ MessagesSend
    \/ MessagesRoute
    \/ MessagesClearInboxes
    \/ MessagesArchivePhase

SpecMessages == InitMessages /\ [][NextMessages]_vars

-----------------------------------------------------------------------------
(* SpecCenters: update_sc_ownership called on the states of a game driven by
   next_phase, adjudicate and apply_retreats *)

CentersUpdate ==
    /\ op # "update_sc_ownership"
    /\ Call("update_sc_ownership", None, Outcome(UpdateScOwnership(state), 1, None), None)
    /\ Account

NextCenters ==
    \/ OrdersNextPhase
    \/ OrdersAdjudicate
    \/ OrdersApplyRetreats
    \/ CentersUpdate

SpecCenters == Init /\ [][NextCenters]_vars

-----------------------------------------------------------------------------
(* SpecCalls: the operations on the game state called in any order from a
   fresh game, in the first year of the game.  No operation tests the phase
   or the pending retreats before it acts, so each is enabled in every state
   of the year; the unit lists, which the code lets grow without limit, are
   kept within a bound. *)

\* the largest number of units of one power
MaxUnits == 4

WithinMaxUnits(s) ==
    \A power \in DOMAIN s["units"] : Len(s["units"][power]) <= MaxUnits

CallsNextPhase ==
    /\ state["phase"] \notin ADJUSTMENT_PHASES
    /\ Call("next_phase", None, Outcome(NextPhase(state), 0, None), None)
    /\ UNCHANGED <<sc_updates, start, n_adv, log>>

CallsAdjudicate ==
    \E name \in DOMAIN JdipReplies :
        /\ state["phase"] \notin ADJUSTMENT_PHASES
        /\ Call("adjudicate", name, Adjudicate(state, JdipReplies[name]), None)
        /\ UNCHANGED <<sc_updates, start, n_adv, log>>

CallsApplyRetreats ==
    \E name \in DOMAIN RetreatOrders :
        /\ WithinMaxUnits(ApplyRetreats(state, RetreatOrders[name]).state)
        /\ Call("apply_retreats", name, ApplyRetreats(state, RetreatOrders[name]), None)
        /\ UNCHANGED <<sc_updates, start, n_adv, log>>

CallsApplyAdjustments ==
    \E name \in DOMAIN Adjustments :
        /\ WithinMaxUnits(ApplyAdjustments(state, Adjustments[name]).state)
        /\ Call("apply_adjustments", name,
                ApplyAdjustments(state, Adjustments[name]), None)
        /\ UNCHANGED <<sc_updates, start, n_adv, log>>

NextCalls ==
    \/ CallsNextPhase
    \/ CallsAdjudicate
    \/ CallsApplyRetreats
    \/ CallsApplyAdjustments

SpecCalls == Init /\ [][NextCalls]_vars

-----------------------------------------------------------------------------
(* SpecValidate: validate_order called on a game state in any phase whose
   dislodged unit is still in the units list, as in the states the tests of
   orders.py build *)

SpecValidate == InitPhase /\ [][OrdersValidate]_vars

-----------------------------------------------------------------------------
(* Properties.  prev is the state the last operation was called on, so a    *)
(* property of one call is a predicate of prev, op, arg and state.          *)

\* what the properties expect, written out apart from the definitions above
FixedCycle ==
    << "Spring Diplomacy", "Spring Movement", "Spring Retreat",
       "Fall Diplomacy", "Fall Movement", "Fall Retreat",
       "Winter Adjustment" >>

FixedPowers ==
    << "Austria", "England", "France", "Germany", "Italy", "Russia", "Turkey" >>

Successor(phase) ==
    FixedCycle[((CHOOSE i \in 1..7 : FixedCycle[i] = phase) % 7) + 1]

\* the number of supply centers sc_ownership gives to the power
Owned(s, p) ==
    Cardinality({sc \in DOMAIN s["sc_ownership"] : s["sc_ownership"][sc] = p})

\* the positions in FixedPowers of the powers with 18 supply centers or more
AtEighteen(s) == {i \in 1..7 : Owned(s, FixedPowers[i]) >= 18}

FailedReplies == {"exit_status", "timeout", "unreadable"}

\* the adjudicator's reply carries a result that reports a dislodged unit
ReportsDislodged(name) ==
    /\ name \notin FailedReplies
    /\ Get(JdipReplies[name].result, "dislodged", <<>>) # <<>>

\* the adjudicator's reply carries a result with a non-empty sc_ownership
CarriesOwnership(name) ==
    /\ name \notin FailedReplies
    /\ Get(JdipReplies[name].result, "sc_ownership", EmptyDict) # EmptyDict

\* C1: next_phase follows the fixed cycle of the seven phases and adds 1 to
\* year on the step out of Winter Adjustment only, leaving every other field
\* alone; so 7 applications from any state give the starting phase with
\* year + 1, and any other number (up to MaxAdvance) leaves the phase or the
\* year different from the start.
C1_NextPhaseCycle ==
    /\ op = "next_phase" =>
          /\ state["phase"] = Successor(prev["phase"])
          /\ state["year"] =
                prev["year"] + (IF prev["phase"] = "Winter Adjustment" THEN 1 ELSE 0)
    /\ n_adv = 7 => state["phase"] = start[1] /\ state["year"] = start[2] + 1
    /\ (n_adv > 0 /\ n_adv # 7) => <<state["phase"], state["year"]>> # start

\* C1 witness: seven applications from Fall Movement, across the year's end
C1_Witness ==
    /\ n_adv = 7
    /\ op = "next_phase"
    /\ start = <<"Fall Movement", 1901>>
    /\ state["phase"] = "Fall Movement"
    /\ state["year"] = 1902

\* C2 (as claimed): in a year driven by adjudicate and apply_retreats,
\* update_sc_ownership has been applied exactly once when the Fall turn ends
\* in Winter Adjustment, whether Fall Retreat was played or skipped, and not
\* at all while the state is in a phase before it.
C2_UpdateOncePerYear ==
    (op \in {"adjudicate", "apply_retreats"} /\ err = None) =>
        IF state["phase"] = "Winter Adjustment" THEN sc_updates = 1
        ELSE IF state["phase"] = "Fall Retreat" THEN sc_updates \in {0, 1}
        ELSE sc_updates = 0

C4_OccupiedCentersOwned ==
    upd = 1 =>
        \A p \in DOMAIN state["units"] :
            \A i \in 1..Len(state["units"][p]) :
                LET base_loc == BaseLoc(state["units"][p][i].location)
                IN  base_loc \in Range(ALL_SUPPLY_CENTERS) =>
                        /\ Has(state["sc_ownership"], base_loc)
                        /\ state["sc_ownership"][base_loc] = p

\* C5 (as claimed): in Winter Adjustment, a power with 18 supply centers or
\* more is the winner.
C5_WinnerByWinter ==
    (state["phase"] = "Winter Adjustment" /\ AtEighteen(state) # {}) =>
        \E i \in AtEighteen(state) : state["winner"] = FixedPowers[i]

\* C6: check_win returns the first power, in the order Austria, England,
\* France, Germany, Italy, Russia, Turkey, that owns 18 supply centers or
\* more, and none when every power owns 17 or fewer.
C6_CheckWin ==
    op = "check_win" =>
        IF AtEighteen(state) = {} THEN ret = None
        ELSE ret = FixedPowers[CHOOSE i \in AtEighteen(state) :
                                   \A j \in AtEighteen(state) : i <= j]

\* C6 witness: check_win on a state where France owns exactly 18
C6_Witness ==
    /\ op = "check_win"
    /\ Owned(state, "France") = 18
    /\ ret = "France"

\* C7: eliminated never holds a power twice; after check_elimination it
\* holds every power that owns no supply center; and no operation removes a
\* power from it.
C7_Eliminated ==
    /\ \A i, j \in 1..Len(state["eliminated"]) :
           state["eliminated"][i] = state["eliminated"][j] => i = j
    /\ op = "check_elimination" =>
           \A i \in 1..7 :
               Owned(state, FixedPowers[i]) = 0 =>
                   FixedPowers[i] \in Range(state["eliminated"])
    /\ Range(prev["eliminated"]) \subseteq Range(state["eliminated"])

\* C7 witness: check_elimination run on a state where the five powers
\* without a supply center are in eliminated already, and adding none again
C7_Witness ==
    /\ op = "check_elimination"
    /\ prev = state
    /\ Len(state["eliminated"]) = 5
    /\ Owned(state, "Turkey") = 0
    /\ "Turkey" \in Range(state["eliminated"])

\* C8: skip_retreat_if_empty moves the phase one step on (nothing else
\* changes) when the phase is Spring Retreat or Fall Retreat and dislodged is
\* empty or absent; otherwise it changes nothing; and a second application
\* changes nothing more.
C8_SkipRetreat ==
    op = "skip_retreat_if_empty" =>
        /\ IF /\ prev["phase"] \in {"Spring Retreat", "Fall Retreat"}
              /\ (~Has(prev, "dislodged") \/ prev["dislodged"] = <<>>)
           THEN state = [prev EXCEPT !["phase"] = Successor(prev["phase"])]
           ELSE state = prev
        /\ SkipRetreatIfEmpty(state) = state

\* C8 witness: Fall Retreat skipped on a state without the dislodged key
C8_Witness ==
    /\ op = "skip_retreat_if_empty"
    /\ prev["phase"] = "Fall Retreat"
    /\ ~Has(prev, "dislodged")
    /\ state["phase"] = "Winter Adjustment"

\* C9: after adjudicate resolved a Movement phase, the state is in the
\* Retreat phase that follows if the adjudicator reported a dislodged unit,
\* and otherwise one phase further (Fall Diplomacy, Winter Adjustment); the
\* year is the same.
C9_RetreatIffDislodged ==
    (op = "adjudicate" /\ err = None
        /\ prev["phase"] \in {"Spring Movement", "Fall Movement"}) =>
        /\ state["year"] = prev["year"]
        /\ state["phase"] =
              IF ReportsDislodged(arg) THEN Successor(prev["phase"])
              ELSE Successor(Successor(prev["phase"]))

\* C9 witness: Fall Movement resolved with a dislodged unit reported
C9_Witness ==
    /\ op = "adjudicate"
    /\ arg = "dislodged"
    /\ prev["phase"] = "Fall Movement"
    /\ state["phase"] = "Fall Retreat"
    /\ state["dislodged"] # <<>>

\* C10: when the jDip process fails (non-zero exit status, timeout,
\* unreadable output), adjudicate raises and the state, every field of it,
\* is as it was before the call.
C10_FailureChangesNothing ==
    (op = "adjudicate" /\ arg \in FailedReplies) =>
        /\ err # None
        /\ DOMAIN state = DOMAIN prev
        /\ \A k \in {"units", "sc_ownership", "eliminated", "winner", "phase", "year"} :
               state[k] = prev[k]
        /\ Has(prev, "dislodged") => state["dislodged"] = prev["dislodged"]

\* C10 witness: the jDip process timed out on a Fall Retreat with a unit
\* awaiting its retreat
C10_Witness ==
    /\ op = "adjudicate"
    /\ arg = "timeout"
    /\ err = "TimeoutExpired"
    /\ prev["phase"] = "Fall Retreat"
    /\ prev["dislodged"] # <<>>

\* the jDip process failed in the call made by the last operation
JdipFailed ==
    \/ op \in {"adjudicate", "simulate"} /\ arg \in FailedReplies
    \/ op = "new_game" /\ arg \in {"RuntimeError", "TimeoutExpired", "JSONDecodeError"}

\* C11 (as claimed): whenever the jDip process fails in a call made by
\* adjudicate, simulate or new_game, the operation raises an exception.
C11_FailureSurfaced == JdipFailed => err # None

(* validate_order *)

\* the last call was validate_order(order_str, power, state)
Validated == op = "validate_order"

\* the order types each kind of phase allows
AllowedIn(phase) ==
    CASE phase \in {"Spring Movement", "Fall Movement"} ->
            {"move", "hold", "support_move", "support_hold", "convoy"}
      [] phase \in {"Spring Retreat", "Fall Retreat"} -> {"move", "retreat_disband"}
      [] phase = "Winter Adjustment" -> {"build", "disband", "waive"}
      [] OTHER -> {}

\* the kinds of error of a rejection r = (False, parsed, error)
ParseError(r) == ~r[1] /\ r[3][1] = "Cannot parse order: "
PhaseError(r) == ~r[1] /\ r[3][1] \in {"Order type '", "No orders accepted during "}
OwnershipError(r) == ~r[1] /\ Len(r[3]) = 5 /\ r[3][2] = " has no "
NotDislodgedError(r) == ~r[1] /\ Len(r[3]) = 5 /\ r[3][2] = " has no dislodged "

\* C12: validate_order accepts a parseable order only if the phase allows its
\* type, rejects it with a phase error exactly when the phase does not allow
\* its type, and a Diplomacy phase allows no type.
C12_TypeGate ==
    Validated /\ ret[2] # NoOrder =>
        /\ ret[1] => ret[2]["type"] \in AllowedIn(state["phase"])
        /\ PhaseError(ret) <=> ret[2]["type"] \notin AllowedIn(state["phase"])
        /\ state["phase"] \in {"Spring Diplomacy", "Fall Diplomacy"} => PhaseError(ret)

\* a build is accepted in Winter Adjustment
C12_Witness ==
    /\ Validated
    /\ state["phase"] = "Winter Adjustment"
    /\ ret[1]
    /\ ret[2]["type"] = "build"

\* the power has, in the units of state s, a unit of that type letter at that
\* location, coasts apart
OwnsUnit(s, power, unit_type, location) ==
    \E u \in Range(Get(s["units"], power, << >>)) :
        /\ unit_type = (IF u["type"] \in {"Army", "A"} THEN "A" ELSE "F")
        /\ BaseLoc(u["location"]) = BaseLoc(location)

\* the order types that name an acting unit
ActingTypes ==
    {"move", "hold", "support_move", "support_hold", "convoy", "retreat_disband", "disband"}

\* C13 (as claimed): an order of a type the phase allows that names an acting
\* unit the issuing power does not own is rejected with an ownership error.
C13_OwnershipGate ==
    /\ Validated
    /\ ret[2] # NoOrder
    /\ ret[2]["type"] \in AllowedIn(state["phase"]) \cap ActingTypes
    /\ ~OwnsUnit(state, arg[2], ret[2]["unit_type"], ret[2]["location"])
    => OwnershipError(ret)

\* the unit of that type letter at that location is in the Dislodged Records
\* of the power in state s
IsDislodged(s, power, unit_type, location) ==
    \E d \in Range(Get(s, "dislodged", << >>)) :
        /\ d["power"] = power
        /\ unit_type = (IF d["unit"]["type"] \in {"Army", "A"} THEN "A" ELSE "F")
        /\ BaseLoc(d["unit"]["location"]) = BaseLoc(location)

\* C14 (as claimed): in a Retreat phase a move or retreat-disband order is
\* accepted exactly when its unit is in the issuing power's Dislodged
\* Records, whether or not the units list still holds it, and is otherwise
\* rejected with a not-dislodged error.
C14_DislodgedGate ==
    /\ Validated
    /\ state["phase"] \in {"Spring Retreat", "Fall Retreat"}
    /\ ret[2] # NoOrder
    /\ ret[2]["type"] \in {"move", "retreat_disband"}
    => IF IsDislodged(state, arg[2], ret[2]["unit_type"], ret[2]["location"])
       THEN ret[1]
       ELSE NotDislodgedError(ret)

\* the order texts that are no order of any form
Unparseable == {<< "do", "something", "weird" >>, << >>}

\* C15: validate_order returns and reports the first failing gate: a text
\* that is no order gives (False, None, cannot-parse error with the text);
\* an order of a type the phase does not allow gives a phase error; an
\* ownership error is given only to an order that passed both and whose unit
\* the power does not own, a not-dislodged error only to one that passed all
\* three and whose unit is not dislodged; no order that can be parsed gets a
\* parse error.
C15_FirstFailingGate ==
    Validated =>
        /\ err = None
        /\ IF arg[1] \in Unparseable
           THEN ret = << FALSE, NoOrder, << "Cannot parse order: ", arg[1] >> >>
           ELSE /\ ret[2] # NoOrder
                /\ ~ParseError(ret)
                /\ ret[2]["type"] \notin AllowedIn(state["phase"]) => PhaseError(ret)
                /\ OwnershipError(ret) =>
                      /\ ret[2]["type"] \in AllowedIn(state["phase"])
                      /\ ~OwnsUnit(state, arg[2], ret[2]["unit_type"], ret[2]["location"])
                /\ NotDislodgedError(ret) =>
                      /\ ret[2]["type"] \in AllowedIn(state["phase"])
                      /\ OwnsUnit(state, arg[2], ret[2]["unit_type"], ret[2]["location"])
                      /\ ~IsDislodged(state, arg[2], ret[2]["unit_type"], ret[2]["location"])

\* Build A Paris by France in Spring Movement is rejected with a phase error
C15_Witness ==
    /\ Validated
    /\ arg = << << "Build", "A", "Paris" >>, "France" >>
    /\ state["phase"] = "Spring Movement"
    /\ PhaseError(ret)
    /\ ret[2]["type"] = "build"

(* default_orders *)

\* the last call was default_orders(power, state)
Defaulted == op = "default_orders"

\* the Dislodged Records of the power in state s, in the order of the list
RecordsOf(s, power) ==
    SelectSeq(Get(s, "dislodged", << >>), LAMBDA d : d["power"] = power)

\* the text is an order of that type for that unit
OrderFor(text, type, unit) ==
    /\ ParseOrder(text)["type"] = type
    /\ ParseOrder(text)["unit_type"] = (IF unit["type"] \in {"Army", "A"} THEN "A" ELSE "F")
    /\ BaseLoc(ParseOrder(text)["location"]) = BaseLoc(unit["location"])

\* C16: default_orders gives, in a Movement phase, one Hold order for each
\* unit of the power; in a Retreat phase, one Disband order for each
\* Dislodged Record of the power; in any other phase, no order.
C16_DefaultOrders ==
    Defaulted =>
        CASE state["phase"] \in {"Spring Movement", "Fall Movement"} ->
                /\ Len(ret) = Len(Get(state["units"], arg, << >>))
                /\ \A i \in 1..Len(ret) : OrderFor(ret[i], "hold", state["units"][arg][i])
          [] state["phase"] \in {"Spring Retreat", "Fall Retreat"} ->
                /\ Len(ret) = Len(RecordsOf(state, arg))
                /\ \A i \in 1..Len(ret) :
                      OrderFor(ret[i], "retreat_disband", RecordsOf(state, arg)[i]["unit"])
          [] OTHER -> ret = << >>

\* Austria, its fleet in Trieste dislodged, gets the order to disband it
C16_Witness ==
    /\ Defaulted
    /\ arg = "Austria"
    /\ state["phase"] = "Spring Retreat"
    /\ ret = << << "F", "Trieste", "Disband" >> >>

\* C17 (as claimed): in a Movement or Retreat phase, validate_order accepts
\* every order that default_orders gives, for the same power and state.
C17_DefaultsAreLegal ==
    /\ Defaulted
    /\ state["phase"] \in {"Spring Movement", "Fall Movement", "Spring Retreat", "Fall Retreat"}
    => \A i \in 1..Len(ret) : ValidateOrder(ret[i], arg, state)[1]

(* collect_orders *)

\* the last call was collect_orders on the submissions named by arg
Collected == op = "collect_orders"

AllPowers == {"Austria", "England", "France", "Germany", "Italy", "Russia", "Turkey"}

IsEliminated(s, power) == power \in Range(Get(s, "eliminated", << >>))

\* the order texts the power submitted under the names subs, none if it
\* submitted nothing
Submitted(subs, power) ==
    IF power \in DOMAIN subs /\ OrderData[subs[power]].exists
    THEN Get(OrderData[subs[power]].data, "orders", << >>)
    ELSE << >>

\* those of them that validate_order accepts in state s, and those it rejects
ValidOf(subs, power, s) ==
    SelectSeq(Submitted(subs, power), LAMBDA o : ValidateOrder(o, power, s)[1])
InvalidOf(subs, power, s) ==
    SelectSeq(Submitted(subs, power), LAMBDA o : ~ValidateOrder(o, power, s)[1])

\* what one power gets: the empty list if eliminated, its default orders and
\* a place in defaults if none of its orders is valid, else its valid orders
OrdersOfPower(r, subs, power, s) ==
    IF IsEliminated(s, power) THEN r.orders[power] = << >>
    ELSE IF ValidOf(subs, power, s) = << >>
    THEN /\ r.orders[power] = DefaultOrders(power, s)
         /\ power \in Range(r.defaults)
    ELSE /\ r.orders[power] = ValidOf(subs, power, s)
         /\ power \notin Range(r.defaults)

\* every invalid order of the power is in errors under its name
ErrorsOfPower(r, subs, power, s) ==
    \A i \in 1..Len(InvalidOf(subs, power, s)) :
        /\ power \in DOMAIN r.errors
        /\ \E j \in 1..Len(r.errors[power]) :
               r.errors[power][j][1] = InvalidOf(subs, power, s)[i]

C19_CompleteOrders ==
    /\ Collected
    /\ err = None
    /\ state["phase"] \in {"Spring Movement", "Fall Movement"}
    => \A power \in AllPowers \ Range(Get(state, "eliminated", << >>)) :
          \A u \in Range(Get(state["units"], power, << >>)) :
              \E i \in 1..Len(ret.orders[power]) :
                  \E type \in {"move", "hold", "support_move", "support_hold", "convoy"} :
                      OrderFor(ret.orders[power][i], type, u)

\* what the result r of collect_orders holds for one power: its orders, its
\* errors, whether it is among the defaults
Yield(r, power) ==
    << r.orders[power],
       IF power \in DOMAIN r.errors THEN r.errors[power] ELSE << >>,
       power \in Range(r.defaults) >>

StateFields ==
    {"phase", "year", "units", "sc_ownership", "dislodged", "eliminated", "winner"}

ValidatedAll == op = "validate_orders"

\* C22: validate_orders gives each order of its list the verdict that
\* validate_order gives it alone: the valid list holds the accepted orders
\* with their parsed form, the error list the rejected ones with their
\* error, both in the order of the list, and nothing else.
C22_Partition ==
    ValidatedAll =>
        \A input \in {OrderLists[arg[1]]} :
            \A accepted \in {SelectSeq(input, LAMBDA o : ValidateOrder(o, arg[2], state)[1])} :
            \A rejected \in {SelectSeq(input, LAMBDA o : ~ValidateOrder(o, arg[2], state)[1])} :
                /\ Len(ret.valid) + Len(ret.errors) = Len(input)
                /\ Len(ret.valid) = Len(accepted)
                /\ \A i \in 1..Len(accepted) :
                      ret.valid[i] = << accepted[i], ValidateOrder(accepted[i], arg[2], state)[2] >>
                /\ Len(ret.errors) = Len(rejected)
                /\ \A i \in 1..Len(rejected) :
                      ret.errors[i] = << rejected[i], ValidateOrder(rejected[i], arg[2], state)[3] >>

\* a hold and a move for France's army in Marseilles are both valid
C22_Witness ==
    /\ ValidatedAll
    /\ arg = << "same_unit", "France" >>
    /\ state["phase"] = "Spring Movement"
    /\ Len(ret.valid) = 2
    /\ ret.valid[1][2]["location"] = ret.valid[2][2]["location"]
    /\ ret.errors = << >>

(* adjustment_counts *)

\* the last call was adjustment_counts(state)
Counted == op = "adjustment_counts"

\* C23: adjustment_counts gives every power that is not eliminated the number
\* of supply centers it owns minus the number of its units, and every
\* eliminated power zero.
C23_AdjustmentCounts ==
    Counted =>
        /\ DOMAIN ret = AllPowers
        /\ \A power \in AllPowers :
              ret[power] = IF IsEliminated(state, power) THEN 0
                           ELSE Owned(state, power) - Len(Get(state["units"], power, << >>))

\* an eliminated power with units and no supply center counts zero, while a
\* power may build and another must disband
C23_Witness ==
    /\ Counted
    /\ \E power \in AllPowers :
          /\ IsEliminated(state, power)
          /\ Owned(state, power) # Len(Get(state["units"], power, << >>))
          /\ ret[power] = 0
    /\ \E power \in AllPowers : ret[power] > 0
    /\ \E power \in AllPowers : ret[power] < 0

(* new_game *)

\* the state is the one that new_game returned, whatever jDip gave it (arg)
Fresh == op = "new_game" /\ arg # None /\ err = None

\* C24: a fresh game is in Spring Diplomacy 1901 with no eliminated power and
\* no winner; Russia has 4 supply centers and 4 units, each other power 3 and
\* 3, 22 supply centers being owned; check_win gives None and every
\* adjustment count is zero.
C24_FreshGame ==
    Fresh =>
        /\ state["year"] = 1901
        /\ state["phase"] = "Spring Diplomacy"
        /\ state["eliminated"] = << >>
        /\ state["winner"] = None
        /\ \A power \in AllPowers :
              /\ Owned(state, power) = (IF power = "Russia" THEN 4 ELSE 3)
              /\ Len(state["units"][power]) = (IF power = "Russia" THEN 4 ELSE 3)
              /\ AdjustmentCounts(state)[power] = 0
        /\ Cardinality({sc \in DOMAIN state["sc_ownership"] :
                           state["sc_ownership"][sc] \in AllPowers}) = 22
        /\ DOMAIN state["units"] = AllPowers
        /\ CheckWin(state) = None

\* the fresh game made from jDip's reply, Russia's fleet in St Petersburg on
\* the south coast
C24_Witness ==
    /\ Fresh
    /\ arg = "ok"
    /\ state["year"] = 1901
    /\ Owned(state, "Russia") = 4
    /\ state["units"]["Russia"][1]["location"] = "St Petersburg (South Coast)"


\* apply_retreats has just returned
Retreated == op = "apply_retreats" /\ err = None

\* the units the retreat actions of the orders give to the power, in order
RECURSIVE RetreatedUnits(_, _)
RetreatedUnits(retreat_orders, power) ==
    IF retreat_orders = << >> THEN << >>
    ELSE LET order == Head(retreat_orders)
             rest == RetreatedUnits(Tail(retreat_orders), power)
         IN  IF order["power"] = power /\ order["action"] = "retreat"
             THEN << [type |-> order["unit"]["type"],
                      location |-> order["destination"]] >> \o rest
             ELSE rest

\* C25: apply_retreats adds, for each retreat action, exactly one unit of the
\* dislodged unit's type at the destination to that power's units, adds
\* nothing for a disband action, leaves the dislodged list empty, and changes
\* neither phase nor year.
C25_ApplyRetreats ==
    op = "apply_retreats" =>
        /\ err = None
        /\ DOMAIN state["units"] = DOMAIN prev["units"]
        /\ \A power \in DOMAIN prev["units"] :
              state["units"][power] =
                  prev["units"][power] \o RetreatedUnits(RetreatOrders[arg], power)
        /\ state["dislodged"] = << >>
        /\ state["phase"] = prev["phase"]
        /\ state["year"] = prev["year"]

\* a retreat has put the dislodged fleet in Albania
C25_Witness ==
    /\ Retreated
    /\ arg = "retreat"
    /\ prev["dislodged"] # << >>
    /\ Len(state["units"]["Austria"]) = Len(prev["units"]["Austria"]) + 1
    /\ Fleet("Albania") \in Range(state["units"]["Austria"])

\* a disband has dropped the dislodged fleet
C25_WitnessDisband ==
    /\ Retreated
    /\ arg = "disband"
    /\ prev["dislodged"] # << >>
    /\ state["units"] = prev["units"]


\* parse_order has just returned
Parsed == op = "parse_order"

\* the forms an order string is written in
FormsOf(text) == {form \in DOMAIN ParseForms : text \in ParseForms[form]}

\* the single letter of a unit type, however it is spelled
LetterOf(spelling) == IF spelling \in {"A", "a", "Army"} THEN "A" ELSE "F"

\* how the string spells the type of its acting unit: the first token, or the
\* second after Build, Disband or Remove
ActingSpelling(text) == IF text[1] \in UnitSpellings THEN text[1] ELSE text[2]

\* every unit type of the string is written as a letter
LettersOnly(text) == \A j \in 1..Len(text) : text[j] \notin {"Army", "Fleet"}

\* C26 (as claimed): an order string of any form is parsed as an order of
\* that form whether its unit type is written as the full word or as the
\* single letter, and the parsed unit type is the single letter.
C26_WordOrLetter ==
    Parsed /\ FormsOf(arg) # {} /\ FormsOf(arg) # {"waive"} =>
        /\ ret # NoOrder
        /\ ret["type"] \in FormsOf(arg)
        /\ ret["unit_type"] = LetterOf(ActingSpelling(arg))

\* a token in lower case, for the tokens the order strings write in both cases
LowerCase(token) ==
    CASE token = "A" -> "a"
      [] token = "F" -> "f"
      [] token = "H" -> "h"
      [] token = "Hold" -> "hold"
      [] token = "D" -> "d"
      [] token = "Disband" -> "disband"
      [] token = "Remove" -> "remove"
      [] token = "Build" -> "build"
      [] token = "Waive" -> "waive"
      [] token = "Marseilles" -> "marseilles"
      [] OTHER -> token

\* two order strings that differ in letter case at most
SameButCase(text, other) ==
    /\ Len(text) = Len(other)
    /\ \A j \in 1..Len(text) : LowerCase(text[j]) = LowerCase(other[j])

\* a field of a parsed order, None when the order has no such field
Field(order, name) == IF name \in DOMAIN order THEN order[name] ELSE None

\* C27 (as claimed): two order strings that differ only in letter case yield
\* the same parsed order: the same type, unit type, location, coast and
\* destination.
C27_CaseInsensitive ==
    Parsed =>
        \A other \in ParseTexts :
            SameButCase(arg, other) =>
                \A name \in {"type", "unit_type", "location", "coast", "destination"} :
                    Field(ret, name) = Field(ParseOrder(other), name)

\* the order types with the regex of each, most specific first
TriedInOrder ==
    << << "waive", WAIVE_RE >>, << "build", BUILD_RE >>,
       << "disband", WINTER_DISBAND_RE >>, << "retreat_disband", RETREAT_DISBAND_RE >>,
       << "support_move", SUPPORT_MOVE_RE >>, << "convoy", CONVOY_RE >>,
       << "support_hold", SUPPORT_HOLD_RE >>, << "move", MOVE_RE >>,
       << "hold", HOLD_RE >> >>

\* the type of the first regex in that order to match the string, or None
FirstMatching(text) ==
    LET hits == {i \in 1..Len(TriedInOrder) : Match(TriedInOrder[i][2], text) # NoMatch}
    IN  IF hits = {} THEN None
        ELSE TriedInOrder[CHOOSE i \in hits : \A j \in hits : i <= j][1]

\* C28 (as claimed): parse returns the first form that matches, in the order
\* Waive, Build, Winter Disband, Retreat Disband, Support-move, Convoy,
\* Support-hold, Move, Hold, so that a string in support-move, convoy or
\* support-hold form, with or without the trailing H, is never classified as
\* a bare move or hold.
C28_MostSpecificFirst ==
    Parsed =>
        /\ ret["type"] = FirstMatching(arg)
        /\ FormsOf(arg) \cap {"support_move", "convoy", "support_hold"} # {} =>
               ret["type"] \notin {"move", "hold"}


\* C29 (as claimed): over any sequence of send_message, route_messages,
\* clear_inboxes and archive_phase calls a sent message is copied into its
\* recipient's inbox at most once; route_messages leaves the outboxes as they
\* are and copies a message only to the inbox of the recipient its filename
\* names.
C29_DeliveredOnce ==
    /\ \A copy \in DOMAIN log["copied"] : log["copied"][copy] <= 1
    /\ op = "route_messages" =>
          /\ state["outbox"] = prev["outbox"]
          /\ \A dest \in DOMAIN state["inbox"] \ DOMAIN prev["inbox"] :
                /\ dest[1] = ParseMessageFilename(dest[2])["recipient"]
                /\ state["inbox"][dest] =
                       prev["outbox"][<< ParseMessageFilename(dest[2])["sender"], dest[2] >>]

\* the filenames send_message has given so far, in the order of sending
SentNames == [i \in 1..Len(log["sent"]) |-> log["sent"][i][1]]

\* C30 (as claimed): send_message never gives a filename twice; for a sender,
\* recipient, phase and round the sequence numbers are 1, 2, 3, ... in the
\* order of sending, whatever is sent to other recipients or in other rounds;
\* and no call replaces the content of a file in an outbox, an inbox or the
\* archive, also after archive_phase has moved messages out of the outbox.
C30_NoFilenameReused ==
    /\ \A i, j \in 1..Len(SentNames) : i # j => SentNames[i] # SentNames[j]
    /\ \A i \in 1..Len(SentNames) :
          ParseMessageFilename(SentNames[i])["seq"] =
              1 + Cardinality({j \in 1..(i - 1) :
                                  SubSeq(SentNames[j], 1, 4) = SubSeq(SentNames[i], 1, 4)})
    /\ \A dir \in {"outbox", "inbox", "archive"} :
          \A path \in DOMAIN prev[dir] \cap DOMAIN state[dir] :
              state[dir][path] = prev[dir][path]

\* a unit stands on the province in state s
Occupied(s, province) ==
    \E p \in DOMAIN s["units"] :
        \E i \in 1..Len(s["units"][p]) : BaseLoc(s["units"][p][i]["location"]) = province

CountOf(units, unit) == Cardinality({i \in 1..Len(units) : units[i] = unit})

\* how many actions of the kind among the actions name the unit
ActionsOn(actions, kind, unit) ==
    Cardinality({i \in 1..Len(actions) :
                    actions[i]["action"] = kind /\ actions[i]["unit"] = unit})

\* the actions the adjustments give for the power
ActionsOf(adjustments, power) ==
    IF \E i \in 1..Len(adjustments) : adjustments[i][1] = power
    THEN adjustments[CHOOSE i \in 1..Len(adjustments) : adjustments[i][1] = power][2]
    ELSE << >>

C32_WitnessDisband ==
    /\ op = "apply_adjustments" /\ err = None /\ arg = "disband"
    /\ Len(state["units"]["France"]) = Len(prev["units"]["France"]) - 1
    /\ Army("Marseilles") \notin Range(state["units"]["France"])
    /\ \E unit \in Range(state["units"]["France"]) : unit["type"] = "Army"

\* C33 (as claimed): for every province P a support-hold order written without
\* the trailing H, "A Berlin S A P", parses as support_hold with supported
\* location exactly P, as the order with the explicit H does.
C33_ImplicitHold ==
    \A name \in Range(ALL_SUPPLY_CENTERS) :
        Parsed /\ arg = << "A", "Berlin", "S", "A", name >> =>
            /\ ret["type"] = "support_hold"
            /\ ret["supported_loc"] = name
            /\ ret["supported_loc"] = ParseOrder(arg \o << "H" >>)["supported_loc"]

\* C34 (as claimed): in every reachable state every power listed in eliminated
\* owns zero supply centers.
C34_EliminatedOwnNothing ==
    \A power \in AllPowers : IsEliminated(state, power) => Owned(state, power) = 0

\* C35: winner is terminal: once winner is set to a power, no step of
\* apply_orders, adjudicate, apply_retreats, apply_adjustments or next_phase
\* clears it or changes it to a different power.
C35_WinnerTerminal ==
    [][Get(state, "winner", None) # None =>
           Get(state', "winner", None) = Get(state, "winner", None)]_vars

\* C36: in every state reached through adjudicate, apply_retreats and
\* next_phase from a fresh game, the dislodged list is non-empty only while the
\* phase is Spring Retreat or Fall Retreat.
C36_DislodgedOnlyInRetreat ==
    Pending(state) => state["phase"] \in RETREAT_PHASES

\* C38 (as claimed): in every state reached from a fresh game by apply_retreats
\* and apply_adjustments, no two units on the board, of the same or of
\* different powers, occupy the same base province.
C38_OneUnitPerProvince ==
    \A p, q \in DOMAIN state["units"] :
        \A i \in 1..Len(state["units"][p]), j \in 1..Len(state["units"][q]) :
            BaseLoc(state["units"][p][i].location) = BaseLoc(state["units"][q][j].location)
                => p = q /\ i = j

\* C37 (as claimed): in a Retreat phase validate_order accepts a retreat move
\* of a dislodged unit only when the destination is one of the legal retreat
\* destinations listed in that unit's Dislodged Record.
C37_RetreatDestination ==
    /\ Validated
    /\ state["phase"] \in RETREAT_PHASES
    /\ ret[1]
    /\ ret[2]["type"] = "move"
    => \E d \in Range(Get(state, "dislodged", << >>)) :
           /\ d["power"] = arg[2]
           /\ UnitMatches(d["unit"], ret[2]["unit_type"], ret[2]["location"])
           /\ ret[2]["destination"] \in Range(Get(d, "retreats", << >>))

\* the powers whose supply-center count reaches the victory threshold
AtThreshold(s) == {p \in AllPowers : ScCounts(s)[p] >= WIN_THRESHOLD}

\* sc_ownership has no key besides the 34 fixed supply centers
FixedCentersOnly(s) == DOMAIN s["sc_ownership"] \subseteq Range(ALL_SUPPLY_CENTERS)

\* C39: whenever sc_ownership has at most the 34 fixed supply centers as keys,
\* at most one power has a supply-center count at the victory threshold or
\* above, so check_win returns that power, or None when there is none, whatever
\* the enumeration order of the powers.
C39_OneAtThreshold ==
    FixedCentersOnly(state) =>
        /\ Cardinality(AtThreshold(state)) <= 1
        /\ op = "check_win" =>
               /\ \A p \in AtThreshold(state) : ret = p
               /\ AtThreshold(state) = {} => ret = None

\* check_win was called on a state whose 34 supply centers are all owned and
\* it returned the one power at the threshold
C39_Witness ==
    /\ op = "check_win"
    /\ DOMAIN state["sc_ownership"] = Range(ALL_SUPPLY_CENTERS)
    /\ AtThreshold(state) = {ret}

\* the 34 supply centers are split 17 to 17 and check_win returned None
C39_WitnessTie ==
    /\ op = "check_win"
    /\ DOMAIN state["sc_ownership"] = Range(ALL_SUPPLY_CENTERS)
    /\ \E p, q \in AllPowers : p # q /\ ScCounts(state)[p] = 17 /\ ScCounts(state)[q] = 17
    /\ ret = None

=============================================================================
